---- MODULE Spec2Model ----
(***************************************************************************)
(* Keyboard-shortcut engine of use-hotkeys: key normalisation, the hotkey  *)
(* matcher (useHotkeys) and the key recorder (useRecordHotkey).            *)
(*                                                                         *)
(* A JavaScript string is a sequence of one-character strings, so that     *)
(* toLowerCase, split and join are computed character by character.        *)
(***************************************************************************)
EXTENDS Integers, Sequences, FiniteSets, TLC

VARIABLES
    \* matchesHotkey applied to one event and one hotkey string
    mEvent, mHotkey, mResult,
    \* useHotkeys (single-combination matcher of the source)
    keymap, handlers, options, hkEvent, hkFired,
    \* sequence matcher (pendingKeys + sequence timer)
    sqKeymap, sqHandlers, sqFormTags, sqPending, sqTimer, sqFired, sqLast, sqHist,
    \* useRecordHotkey (sequence recorder)
    recOptions, isRecording, pendingKeys, pressedKeys, hasNonModifier, currentCombo,
    activeKeys, sequence, timeoutRef, timers, calls, lastOp,
    \* formatCombination, parseHotkeyString and normalizeKey applied to one input
    cInput, cFormatted, cParsed, cNormal,
    \* findConflicts / getConflictsArray applied to one keymap
    cfKeymap, cfConflicts,
    \* useEditableHotkeys: the defaults, the overrides and the merged keymap
    defaults, overrides, edKeymap, edLast,
    \* useRecordHotkey (single-combination recorder)
    r1IsRecording, r1Combination, r1ActiveKeys, r1PressedKeys, r1HasNonModifier,
    r1CurrentCombo, r1Calls, r1LastOp

matchVars == <<mEvent, mHotkey, mResult>>
hkVars    == <<keymap, handlers, options, hkEvent, hkFired>>
seqVars   == <<sqKeymap, sqHandlers, sqFormTags, sqPending, sqTimer, sqFired, sqLast, sqHist>>
recVars   == <<recOptions, isRecording, pendingKeys, pressedKeys, hasNonModifier,
               currentCombo, activeKeys, sequence, timeoutRef, timers, calls,
               lastOp>>
codecVars == <<cInput, cFormatted, cParsed, cNormal>>
confVars  == <<cfKeymap, cfConflicts>>
editVars  == <<defaults, overrides, edKeymap, edLast>>
oneVars   == <<r1IsRecording, r1Combination, r1ActiveKeys, r1PressedKeys,
               r1HasNonModifier, r1CurrentCombo, r1Calls, r1LastOp>>
vars      == <<matchVars, hkVars, seqVars, recVars, codecVars, confVars, editVars,
               oneVars>>

----------------------------------------------------------------------------
(* Strings *)

Uppers == <<"A","B","C","D","E","F","G","H","I","J","K","L","M",
            "N","O","P","Q","R","S","T","U","V","W","X","Y","Z">>
Lowers == <<"a","b","c","d","e","f","g","h","i","j","k","l","m",
            "n","o","p","q","r","s","t","u","v","w","x","y","z">>
Digits == {"0","1","2","3","4","5","6","7","8","9"}

toLowerChar(c) ==
    IF \E i \in 1..Len(Uppers) : Uppers[i] = c
    THEN Lowers[CHOOSE i \in 1..Len(Uppers) : Uppers[i] = c]
    ELSE c

toLowerCase(s) == [i \in 1..Len(s) |-> toLowerChar(s[i])]

RECURSIVE splitGo(_, _, _, _, _)
splitGo(s, sep, i, cur, acc) ==
    IF i > Len(s) THEN Append(acc, cur)
    ELSE IF s[i] = sep THEN splitGo(s, sep, i + 1, <<>>, Append(acc, cur))
    ELSE splitGo(s, sep, i + 1, Append(cur, s[i]), acc)

\* String.prototype.split with a one-character separator
split(s, sep) == splitGo(s, sep, 1, <<>>, <<>>)

\* Array.prototype.includes
includes(arr, x) == \E i \in 1..Len(arr) : arr[i] = x

\* string literals used by the code
sCtrl    == <<"c","t","r","l">>
sControl == <<"c","o","n","t","r","o","l">>
sAlt     == <<"a","l","t">>
sOption  == <<"o","p","t","i","o","n">>
sShift   == <<"s","h","i","f","t">>
sMeta    == <<"m","e","t","a">>
sCmd     == <<"c","m","d">>
sCommand == <<"c","o","m","m","a","n","d">>

kControl == <<"C","o","n","t","r","o","l">>
kAlt     == <<"A","l","t">>
kShift   == <<"S","h","i","f","t">>
kMeta    == <<"M","e","t","a">>
kEnter   == <<"E","n","t","e","r">>
kEscape  == <<"E","s","c","a","p","e">>

----------------------------------------------------------------------------
(* utils.ts *)

keyMap ==
    (<<" ">> :> <<"s","p","a","c","e">>) @@
    (kEscape :> <<"e","s","c","a","p","e">>) @@
    (kEnter :> <<"e","n","t","e","r">>) @@
    (<<"T","a","b">> :> <<"t","a","b">>) @@
    (<<"B","a","c","k","s","p","a","c","e">> :> <<"b","a","c","k","s","p","a","c","e">>) @@
    (<<"D","e","l","e","t","e">> :> <<"d","e","l","e","t","e">>) @@
    (<<"A","r","r","o","w","U","p">> :> <<"a","r","r","o","w","u","p">>) @@
    (<<"A","r","r","o","w","D","o","w","n">> :> <<"a","r","r","o","w","d","o","w","n">>) @@
    (<<"A","r","r","o","w","L","e","f","t">> :> <<"a","r","r","o","w","l","e","f","t">>) @@
    (<<"A","r","r","o","w","R","i","g","h","t">> :> <<"a","r","r","o","w","r","i","g","h","t">>) @@
    (<<"H","o","m","e">> :> <<"h","o","m","e">>) @@
    (<<"E","n","d">> :> <<"e","n","d">>) @@
    (<<"P","a","g","e","U","p">> :> <<"p","a","g","e","u","p">>) @@
    (<<"P","a","g","e","D","o","w","n">> :> <<"p","a","g","e","d","o","w","n">>)

\* /^F\d{1,2}$/
isFunctionKey(key) ==
    /\ Len(key) \in {2, 3}
    /\ key[1] = "F"
    /\ \A i \in 2..Len(key) : key[i] \in Digits

\* mutant: a single letter changes case
normalizeKey_SwapCase(key) ==
    IF key \in DOMAIN keyMap THEN keyMap[key]
    ELSE IF Len(key) = 1
         THEN IF \E i \in 1..Len(Lowers) : Lowers[i] = key[1]
              THEN <<Uppers[CHOOSE i \in 1..Len(Lowers) : Lowers[i] = key[1]]>>
              ELSE toLowerCase(key)
    ELSE toLowerCase(key)

normalizeKey(key) ==
    IF key \in DOMAIN keyMap THEN keyMap[key]
    ELSE IF Len(key) = 1 THEN toLowerCase(key)
    ELSE IF isFunctionKey(key) THEN toLowerCase(key)
    ELSE toLowerCase(key)

isModifierKey_NoShift(key) == key \in {kControl, kAlt, kMeta}

isModifierKey(key) == key \in {kControl, kAlt, kShift, kMeta}

SHIFTED_CHARS ==
    {"~", "!", "@", "#", "$", "%", "^", "&", "*", "(", ")",
     "_", "+", "{", "}", "|", ":", "\"", "<", ">", "?"}

isShiftedChar(key) == Len(key) = 1 /\ key[1] \in SHIFTED_CHARS

----------------------------------------------------------------------------
(* useHotkeys.ts: parseHotkey, matchesHotkey *)

parseHotkey(hotkey) ==
    LET parts == split(toLowerCase(hotkey), "+")
        key   == parts[Len(parts)]
    IN  [ ctrl  |-> includes(parts, sCtrl) \/ includes(parts, sControl),
          alt   |-> includes(parts, sAlt) \/ includes(parts, sOption),
          shift |-> includes(parts, sShift),
          meta  |-> includes(parts, sMeta) \/ includes(parts, sCmd) \/ includes(parts, sCommand),
          key   |-> key ]

\* mutant: the shift flag is always compared strictly
matchesHotkey_StrictShift(e, hotkey) ==
    /\ e.ctrlKey = hotkey.ctrl
    /\ e.altKey = hotkey.alt
    /\ e.shiftKey = hotkey.shift
    /\ e.metaKey = hotkey.meta
    /\ normalizeKey(e.key) = hotkey.key

\* mutant: the shift flag is never compared
matchesHotkey_NoShift(e, hotkey) ==
    /\ e.ctrlKey = hotkey.ctrl
    /\ e.altKey = hotkey.alt
    /\ e.metaKey = hotkey.meta
    /\ normalizeKey(e.key) = hotkey.key

matchesHotkey(e, hotkey) ==
    LET eventKey == normalizeKey(e.key)
        shiftMatches ==
            IF isShiftedChar(e.key)
            THEN (IF hotkey.shift THEN e.shiftKey ELSE TRUE)
            ELSE e.shiftKey = hotkey.shift
    IN  /\ e.ctrlKey = hotkey.ctrl
        /\ e.altKey = hotkey.alt
        /\ shiftMatches
        /\ e.metaKey = hotkey.meta
        /\ eventKey = hotkey.key

----------------------------------------------------------------------------
(* Inputs *)

BoolSets == [ctrlKey : BOOLEAN, altKey : BOOLEAN, shiftKey : BOOLEAN, metaKey : BOOLEAN]

\* e.target: the body, or one of the four kinds of form-editable element
Targets == {"body", "input", "textarea", "select", "contenteditable"}

isFormTarget(t) == t \in {"input", "textarea", "select", "contenteditable"}

KeyEvent(k, m, t) ==
    [key |-> k, ctrlKey |-> m.ctrlKey, altKey |-> m.altKey,
     shiftKey |-> m.shiftKey, metaKey |-> m.metaKey, target |-> t]

None == [op |-> "none"]

\* raw keys (KeyboardEvent.key) of the matcher's input alphabet
MatchKeys == { <<"k">>, <<"K">>, <<"?">>, <<"/">>, <<"g">>, kShift, kEscape, <<"F","1">> }

\* hotkey strings of the binding tables
hCtrlK      == <<"c","t","r","l","+","k">>
hControlK   == <<"C","o","n","t","r","o","l","+","K">>
hK          == <<"k">>
hShiftK     == <<"s","h","i","f","t","+","k">>
hQuestion   == <<"?">>
hShiftQ     == <<"s","h","i","f","t","+","?">>
hCtrlShiftK == <<"c","t","r","l","+","s","h","i","f","t","+","k">>
hMetaK      == <<"m","e","t","a","+","k">>
hEscape     == <<"e","s","c","a","p","e">>
hF1         == <<"f","1">>
hGT         == <<"g"," ","t">>
hGH         == <<"g"," ","h">>
hG          == <<"g">>
hX          == <<"x">>
h2          == <<"2">>
h2W         == <<"2"," ","w">>

MatchHotkeys ==
    { hCtrlK, hControlK, hK, hShiftK, hQuestion, hShiftQ, hCtrlShiftK,
      hMetaK, hEscape, hF1 }

----------------------------------------------------------------------------
(* matchesHotkey as a function of one event and one hotkey string *)

MatchIdle == mEvent = None /\ mHotkey = None /\ mResult = None

Match ==
    /\ mResult.op = "none"
    /\ mResult' = [op |-> "match", matches |-> matchesHotkey(mEvent, parseHotkey(mHotkey))]
    /\ UNCHANGED <<mEvent, mHotkey>>

----------------------------------------------------------------------------
(* useHotkeys: the keydown listener *)

Entry(k, as) == [key |-> k, actions |-> as]

\* binding tables, each in Object.entries order
Keymaps ==
    { << Entry(hCtrlK, <<"save", "saveAs">>), Entry(hControlK, <<"other">>),
         Entry(hQuestion, <<"help">>), Entry(hShiftQ, <<"help2">>) >>,
      << Entry(hK, <<"up">>), Entry(hShiftK, <<"top">>), Entry(hGT, <<"gotoTable">>),
         Entry(hG, <<"grid">>), Entry(hEscape, <<"close">>) >> }

HandlerSets ==
    { {"save", "saveAs", "other", "help", "help2", "up", "top", "gotoTable", "grid", "close"},
      {"saveAs", "other", "help2", "top", "grid"},
      {"other", "help", "up"},
      {} }

HkEvents == { KeyEvent(k, m, t) : k \in MatchKeys, m \in BoolSets, t \in Targets }

HkIdle ==
    /\ keymap = <<>> /\ handlers = {} /\ options = None
    /\ hkEvent = None /\ hkFired = <<>>

\* lines 168-180: the first action of the binding with a handler is run, then return
RECURSIVE runActions(_, _, _)
runActions(actions, j, hs) ==
    IF j > Len(actions) THEN <<>>
    ELSE IF actions[j] \in hs THEN <<actions[j]>>
    ELSE runActions(actions, j + 1, hs)

\* mutant: no return after the handler ran, the loops go on
RECURSIVE runEntries_NoReturn(_, _, _, _)
runEntries_NoReturn(e, km, i, hs) ==
    IF i > Len(km) THEN <<>>
    ELSE IF matchesHotkey(e, parseHotkey(km[i].key))
         THEN SelectSeq(km[i].actions, LAMBDA a : a \in hs)
              \o runEntries_NoReturn(e, km, i + 1, hs)
         ELSE runEntries_NoReturn(e, km, i + 1, hs)

\* lines 161-182: the handlers invoked, in order, for one event
RECURSIVE runEntries(_, _, _, _)
runEntries(e, km, i, hs) ==
    IF i > Len(km) THEN <<>>
    ELSE IF matchesHotkey(e, parseHotkey(km[i].key))
         THEN LET r == runActions(km[i].actions, 1, hs)
              IN  IF r # <<>> THEN r ELSE runEntries(e, km, i + 1, hs)
         ELSE runEntries(e, km, i + 1, hs)

\* lines 142-158: the two early returns
skipsEvent(e, formTags) ==
    \/ (~formTags /\ isFormTarget(e.target))
    \/ isModifierKey(e.key)

handleKeyDown(e) ==
    /\ options.enabled
    /\ LET fired == IF skipsEvent(e, options.enableOnFormTags) THEN <<>>
                    ELSE runEntries(e, keymap, 1, handlers)
       IN  /\ hkFired' = fired
           /\ hkEvent' = [op |-> "handled", e |-> e,
                          defaultPrevented   |-> fired # <<>> /\ options.preventDefault,
                          propagationStopped |-> fired # <<>> /\ options.stopPropagation]
    /\ UNCHANGED <<keymap, handlers, options>>

\* the listener is applied to the event being dispatched
HkKeyDown == hkEvent.op = "dispatch" /\ handleKeyDown(hkEvent.e)

----------------------------------------------------------------------------
(* utils.ts: formatCombination (the id and isSequence fields) *)

RECURSIVE join(_, _)
join(arr, sep) ==
    IF Len(arr) = 0 THEN <<>>
    ELSE IF Len(arr) = 1 THEN arr[1]
    ELSE arr[1] \o sep \o join(Tail(arr), sep)

\* mutant: the modifier tokens in the order ctrl, alt, shift, meta
formatSingleCombination_MetaLast(combo) ==
    LET idParts ==
            (IF combo.modifiers.ctrl THEN <<sCtrl>> ELSE <<>>) \o
            (IF combo.modifiers.alt THEN <<sAlt>> ELSE <<>>) \o
            (IF combo.modifiers.shift THEN <<sShift>> ELSE <<>>) \o
            (IF combo.modifiers.meta THEN <<sMeta>> ELSE <<>>) \o
            <<combo.key>>
    IN  [id |-> join(idParts, <<"+">>)]

formatSingleCombination(combo) ==
    LET idParts ==
            (IF combo.modifiers.ctrl THEN <<sCtrl>> ELSE <<>>) \o
            (IF combo.modifiers.meta THEN <<sMeta>> ELSE <<>>) \o
            (IF combo.modifiers.alt THEN <<sAlt>> ELSE <<>>) \o
            (IF combo.modifiers.shift THEN <<sShift>> ELSE <<>>) \o
            <<combo.key>>
    IN  [id |-> join(idParts, <<"+">>)]

formatCombination(input) ==
    IF Len(input) = 0 THEN [id |-> <<>>, isSequence |-> FALSE]
    ELSE IF Len(input) = 1
         THEN [id |-> formatSingleCombination(input[1]).id, isSequence |-> FALSE]
    ELSE [id |-> join([i \in 1..Len(input) |-> formatSingleCombination(input[i]).id], <<" ">>),
          isSequence |-> TRUE]

----------------------------------------------------------------------------
(* useRecordHotkey.ts (sequence recorder)                                   *)
(* A nullable value is a sequence of length at most one; timeoutRef 0 is    *)
(* null.  Key and timer events are handled one at a time and React applies  *)
(* the state updates of a handler before the next event is dispatched; the  *)
(* listeners of the effect are attached exactly while isRecording.          *)
(* A recording session runs from startRecording to the next cancel, submit  *)
(* or startRecording.  A timer carries the fate of the session that         *)
(* scheduled it ("current", "cancelled" or "ended") and a capture call the  *)
(* fate of the session whose sequence it delivers.                          *)

MaxPending == 2

RecKeys == { <<"g">>, <<"T">>, kShift, kMeta, kEnter, kEscape }

Mods(c, a, sh, me) == [ctrl |-> c, alt |-> a, shift |-> sh, meta |-> me]

\* modifier flags carried by the keydown events
RecMods == { Mods(FALSE, FALSE, FALSE, FALSE), Mods(TRUE, FALSE, TRUE, TRUE) }

Range(f) == { f[i] : i \in DOMAIN f }

\* Set.prototype.add / delete on an insertion-ordered Set
setAdd(s, k) == IF k \in Range(s) THEN s ELSE Append(s, k)
setDelete(s, k) == SelectSeq(s, LAMBDA x : x # k)

\* setTimeout returns a handle no live reference holds
freshHandle(ref, ts) ==
    CHOOSE h \in 1..(Cardinality(ts) + 2) :
        /\ h # ref
        /\ \A t \in ts : t.handle # h
        /\ \A g \in 1..(h - 1) : g = ref \/ \E t \in ts : t.handle = g

\* the session of the timers still outstanding is cancelled, finalized or restarted
retag(ts, fate) == { [t EXCEPT !.of = IF t.of = "current" THEN fate ELSE t.of] : t \in ts }

\* mutant: the handle is forgotten without clearTimeout
clearTimeout_Forget(ref, ts) == [ref |-> 0, timers |-> ts]

\* lines 239-244; the result is timeoutRef.current and the outstanding timers
clearTimeout_(ref, ts) ==
    IF ref # 0 THEN [ref |-> 0, timers |-> { t \in ts : t.handle # ref }]
    ELSE [ref |-> ref, timers |-> ts]

\* mutant: submit leaves the held keys in place
submit_KeepsHeld(seq, c, fate) ==
    IF Len(seq) = 0
    THEN /\ timeoutRef' = c.ref /\ timers' = c.timers
         /\ calls' = <<>>
         /\ UNCHANGED <<isRecording, pendingKeys, pressedKeys, hasNonModifier,
                        currentCombo, activeKeys, sequence>>
    ELSE LET display == formatCombination(seq)
             c1 == clearTimeout_(c.ref, c.timers)
         IN  /\ timeoutRef' = c1.ref /\ timers' = retag(c1.timers, "ended")
             /\ UNCHANGED pressedKeys
             /\ hasNonModifier' = FALSE
             /\ currentCombo' = <<>>
             /\ sequence' = <<seq>>
             /\ pendingKeys' = <<>>
             /\ isRecording' = FALSE
             /\ activeKeys' = <<>>
             /\ calls' = <<[op |-> "capture", seq |-> seq, display |-> display,
                            of |-> fate]>>

\* lines 246-263, from a state whose timer set and handle are c
submit(seq, c, fate) ==
    IF Len(seq) = 0
    THEN /\ timeoutRef' = c.ref /\ timers' = c.timers
         /\ calls' = <<>>
         /\ UNCHANGED <<isRecording, pendingKeys, pressedKeys, hasNonModifier,
                        currentCombo, activeKeys, sequence>>
    ELSE LET display == formatCombination(seq)
             c1 == clearTimeout_(c.ref, c.timers)
         IN  /\ timeoutRef' = c1.ref /\ timers' = retag(c1.timers, "ended")
             /\ pressedKeys' = <<>>
             /\ hasNonModifier' = FALSE
             /\ currentCombo' = <<>>
             /\ sequence' = <<seq>>
             /\ pendingKeys' = <<>>
             /\ isRecording' = FALSE
             /\ activeKeys' = <<>>
             /\ calls' = <<[op |-> "capture", seq |-> seq, display |-> display,
                            of |-> fate]>>

\* mutant: cancel leaves the pending sequence and the held keys
cancel_KeepsState(c) ==
    LET c1 == clearTimeout_(c.ref, c.timers)
    IN  /\ timeoutRef' = c1.ref
        /\ timers' = retag(c1.timers, IF isRecording THEN "cancelled" ELSE "ended")
        /\ isRecording' = FALSE
        /\ activeKeys' = <<>>
        /\ hasNonModifier' = FALSE
        /\ currentCombo' = <<>>
        /\ calls' = <<[op |-> "cancel", recording |-> isRecording]>>
        /\ UNCHANGED <<sequence, pendingKeys, pressedKeys>>

\* lines 265-274
cancel(c) ==
    LET c1 == clearTimeout_(c.ref, c.timers)
    IN  /\ timeoutRef' = c1.ref
        /\ timers' = retag(c1.timers, IF isRecording THEN "cancelled" ELSE "ended")
        /\ isRecording' = FALSE
        /\ pendingKeys' = <<>>
        /\ activeKeys' = <<>>
        /\ pressedKeys' = <<>>
        /\ hasNonModifier' = FALSE
        /\ currentCombo' = <<>>
        /\ calls' = <<[op |-> "cancel", recording |-> isRecording]>>
        /\ UNCHANGED sequence

\* what the last operation started from
Before == [timer |-> timers # {}, pending |-> pendingKeys # <<>>, held |-> pressedKeys # <<>>]

\* the cancel function returned by the hook, callable in any state
Cancel ==
    /\ cancel([ref |-> timeoutRef, timers |-> timers])
    /\ lastOp' = [op |-> "cancel", before |-> Before]
    /\ UNCHANGED recOptions

\* mutant: startRecording keeps the timer, the pending sequence and the held keys
startRecording_NoReset ==
    /\ isRecording' = TRUE
    /\ sequence' = <<>>
    /\ activeKeys' = <<>>
    /\ calls' = <<>>
    /\ lastOp' = [op |-> "start", before |-> Before]
    /\ UNCHANGED <<recOptions, pendingKeys, pressedKeys, hasNonModifier, currentCombo,
                   timeoutRef, timers>>

\* lines 276-288
startRecording ==
    /\ LET c1 == clearTimeout_(timeoutRef, timers)
       IN  timeoutRef' = c1.ref /\ timers' = retag(c1.timers, "ended")
    /\ isRecording' = TRUE
    /\ sequence' = <<>>
    /\ pendingKeys' = <<>>
    /\ activeKeys' = <<>>
    /\ pressedKeys' = <<>>
    /\ hasNonModifier' = FALSE
    /\ currentCombo' = <<>>
    /\ calls' = <<>>
    /\ lastOp' = [op |-> "start", before |-> Before]
    /\ UNCHANGED recOptions

\* mutant: the last non-modifier key among the pressed keys
firstNonModifier_Last(pressed) ==
    LET idx == { i \in 1..Len(pressed) : ~isModifierKey(pressed[i]) }
    IN  IF idx = {} THEN <<>>
        ELSE <<pressed[CHOOSE i \in idx : \A j \in idx : j <= i]>>

\* lines 333-340: the first non-modifier key among the pressed keys
firstNonModifier(pressed) ==
    LET idx == { i \in 1..Len(pressed) : ~isModifierKey(pressed[i]) }
    IN  IF idx = {} THEN <<>>
        ELSE <<pressed[CHOOSE i \in idx : \A j \in idx : i <= j]>>

\* mutant: the recorder lets the event propagate
stopsPropagation_Never(opts) == FALSE

\* lines 294-297 and 356-359: e.stopPropagation() under the preventDefault option
stopsPropagation(opts) == opts.preventDefault

\* mutant: Enter is not recognised
isEnter_Never(key) == FALSE

\* line 302
isEnter(key) == key = kEnter

\* lines 293-353
recHandleKeyDown(key, mods) ==
    /\ isRecording
    /\ lastOp' = [op |-> "keydown", key |-> key, before |-> Before,
                  defaultPrevented |-> recOptions.preventDefault,
                  propagationStopped |-> stopsPropagation(recOptions)]
    /\ LET c == clearTimeout_(timeoutRef, timers)
       IN  IF isEnter(key)
           THEN /\ IF Len(pendingKeys) > 0
                   THEN submit(pendingKeys, c, "current")
                   ELSE /\ timeoutRef' = c.ref /\ timers' = c.timers
                        /\ calls' = <<>>
                        /\ UNCHANGED <<isRecording, pendingKeys, pressedKeys, hasNonModifier,
                                       currentCombo, activeKeys, sequence>>
           ELSE IF key = kEscape
           THEN cancel(c)
           ELSE LET pressed == setAdd(pressedKeys, key)
                    found   == firstNonModifier(pressed)
                    comboKey == IF found = <<>> THEN <<>> ELSE normalizeKey(found[1])
                    combo   == [key |-> comboKey, modifiers |-> mods]
                IN  /\ timeoutRef' = c.ref /\ timers' = c.timers
                    /\ pressedKeys' = pressed
                    /\ hasNonModifier' = IF found # <<>> THEN TRUE ELSE hasNonModifier
                    /\ IF comboKey # <<>>
                       THEN currentCombo' = <<combo>> /\ activeKeys' = <<combo>>
                       ELSE /\ UNCHANGED currentCombo
                            /\ activeKeys' = <<[key |-> <<>>, modifiers |-> mods]>>
                    /\ calls' = <<>>
                    /\ UNCHANGED <<isRecording, pendingKeys, sequence>>
    /\ UNCHANGED recOptions

\* mutant: only the release of the last held key completes a combination
shouldComplete_AllReleased(pressed, key, nonModifier) == Len(pressed) = 0

\* lines 365-367
shouldComplete(pressed, key, nonModifier) ==
    Len(pressed) = 0 \/ (key = kMeta /\ nonModifier)

\* lines 355-391
recHandleKeyUp(key) ==
    /\ isRecording
    /\ LET pressed == setDelete(pressedKeys, key)
       IN  IF shouldComplete(pressed, key, hasNonModifier) /\ hasNonModifier
              /\ currentCombo # <<>>
           THEN /\ Len(pendingKeys) < MaxPending
                /\ LET combo == currentCombo[1]
                       newSequence == Append(pendingKeys, combo)
                       c == clearTimeout_(timeoutRef, timers)
                       h == freshHandle(c.ref, c.timers)
                   IN  /\ pressedKeys' = <<>>
                       /\ hasNonModifier' = FALSE
                       /\ currentCombo' = <<>>
                       /\ activeKeys' = <<>>
                       /\ pendingKeys' = newSequence
                       /\ timeoutRef' = h
                       /\ timers' = c.timers \cup
                              {[handle |-> h, seq |-> newSequence, of |-> "current"]}
           ELSE /\ pressedKeys' = pressed
                /\ UNCHANGED <<hasNonModifier, currentCombo, activeKeys, pendingKeys,
                               timeoutRef, timers>>
    /\ calls' = <<>>
    /\ lastOp' = [op |-> "keyup", key |-> key, before |-> Before,
                  defaultPrevented |-> recOptions.preventDefault,
                  propagationStopped |-> stopsPropagation(recOptions)]
    /\ UNCHANGED <<recOptions, isRecording, sequence>>

\* lines 384-386: an outstanding timer fires and runs submit(newSequence)
TimerFires ==
    \E t \in timers :
        /\ submit(t.seq, [ref |-> timeoutRef, timers |-> timers \ {t}], t.of)
        /\ lastOp' = [op |-> "timer", seq |-> t.seq, before |-> Before]
        /\ UNCHANGED recOptions

RecKeyDown == \E key \in RecKeys, mods \in RecMods : recHandleKeyDown(key, mods)

RecKeyUp == \E key \in RecKeys : recHandleKeyUp(key)

----------------------------------------------------------------------------
(* utils.ts: parseHotkeyString *)

\* String.prototype.trim, for strings whose only whitespace is the space
trim(s) ==
    LET idx == { i \in 1..Len(s) : s[i] # " " }
    IN  IF idx = {} THEN <<>>
        ELSE SubSeq(s, CHOOSE i \in idx : \A j \in idx : i <= j,
                       CHOOSE i \in idx : \A j \in idx : j <= i)

\* split(/\s+/) of a trimmed string
splitWhitespace(s) == SelectSeq(split(s, " "), LAMBDA part : part # <<>>)

parseSingleCombination(str) ==
    LET parts == split(toLowerCase(str), "+")
        key   == parts[Len(parts)]
    IN  [ key |-> key,
          modifiers |->
            [ ctrl  |-> includes(parts, sCtrl) \/ includes(parts, sControl),
              alt   |-> includes(parts, sAlt) \/ includes(parts, sOption),
              shift |-> includes(parts, sShift),
              meta  |-> includes(parts, sMeta) \/ includes(parts, sCmd)
                        \/ includes(parts, sCommand) ] ]

\* mutant: the string is not split into the combinations of a sequence
parseHotkeyString_NoSplit(hotkeyStr) ==
    IF trim(hotkeyStr) = <<>> THEN <<>>
    ELSE <<parseSingleCombination(trim(hotkeyStr))>>

parseHotkeyString(hotkeyStr) ==
    IF trim(hotkeyStr) = <<>> THEN <<>>
    ELSE LET parts == splitWhitespace(trim(hotkeyStr))
         IN  [i \in 1..Len(parts) |-> parseSingleCombination(parts[i])]

----------------------------------------------------------------------------
(* The sequence matcher: pendingKeys and the sequence timer.                *)
(* sqPending is pendingKeys, sqTimer the set of outstanding sequence timers *)
(* (each named by the step that armed it), sqFired the handlers run by the  *)
(* last step, sqLast the last event and sqHist the qualifying keydowns and  *)
(* timer expiries so far, each keydown with the pendingKeys it met and the  *)
(* handlers it ran.                                                         *)

MaxSteps == 3

NoMods == [ctrlKey |-> FALSE, altKey |-> FALSE, shiftKey |-> FALSE, metaKey |-> FALSE]

ShiftOnly == [ctrlKey |-> FALSE, altKey |-> FALSE, shiftKey |-> TRUE, metaKey |-> FALSE]

SeqKeys == { <<"g">>, <<"t">>, <<"h">>, <<"x">>, <<"2">>, <<"w">> }

SeqEvents ==
    { KeyEvent(k, NoMods, "body") : k \in SeqKeys } \cup
    { KeyEvent(kShift, ShiftOnly, "body"),
      KeyEvent(<<"g">>, NoMods, "input"),
      KeyEvent(<<"t">>, NoMods, "textarea") }

hGTCaps == <<" ","G"," "," ","T">>
hXW     == <<"x"," ","w">>
hGTH    == <<"g"," ","t"," ","h">>

TableGoto   == << Entry(hGT, <<"gotoTable">>), Entry(hGH, <<"gotoHome">>) >>
TableDead   == << Entry(hGT, <<"gotoTable">>), Entry(hX, <<"close">>) >>
TableShadow == << Entry(h2, <<"zoomOut">>), Entry(h2W, <<"gotoW">>) >>
TableLong   == << Entry(hGTH, <<"gotoTableHead">>) >>
TableTies   == << Entry(hGT, <<"unbound", "first">>), Entry(hGTCaps, <<"second">>),
                  Entry(hXW, <<"third">>) >>

\* binding tables with the action ids that have a registered handler
SeqConfigs ==
    { [keymap |-> TableGoto,   handlers |-> {"gotoTable", "gotoHome"}],
      [keymap |-> TableDead,   handlers |-> {"gotoTable", "close"}],
      [keymap |-> TableShadow, handlers |-> {"zoomOut", "gotoW"}],
      [keymap |-> TableTies,   handlers |-> {"first", "second"}],
      [keymap |-> TableLong,   handlers |-> {"gotoTableHead"}] }

\* the Combination of a keydown event
toCombination(e) ==
    [key |-> normalizeKey(e.key),
     modifiers |-> Mods(e.ctrlKey, e.altKey, e.shiftKey, e.metaKey)]

\* single-combo matching of a pressed Combination against a bound one
comboMatches(c, b) ==
    matchesHotkey(
        [key |-> c.key, ctrlKey |-> c.modifiers.ctrl, altKey |-> c.modifiers.alt,
         shiftKey |-> c.modifiers.shift, metaKey |-> c.modifiers.meta],
        [ctrl |-> b.modifiers.ctrl, alt |-> b.modifiers.alt, shift |-> b.modifiers.shift,
         meta |-> b.modifiers.meta, key |-> b.key])

\* p is an exact match of the bound sequence b
isExactMatch(p, b) ==
    /\ Len(p) = Len(b)
    /\ \A i \in 1..Len(p) : comboMatches(p[i], b[i])

\* p is a strict prefix of the bound sequence b
isCompletion(p, b) ==
    /\ Len(p) < Len(b)
    /\ \A i \in 1..Len(p) : comboMatches(p[i], b[i])

\* the key strings the binding tables bind
SeqBoundKeys == UNION { { c.keymap[i].key : i \in 1..Len(c.keymap) } : c \in SeqConfigs }

\* their bound sequences, parsed once for all tables
parsedKeys == [h \in SeqBoundKeys |-> parseHotkeyString(h)]

\* the bound sequence of a key string of a binding table
boundSequence(h) == IF h \in SeqBoundKeys THEN parsedKeys[h] ELSE parseHotkeyString(h)

hasExactMatch(p, km) == \E i \in 1..Len(km) : isExactMatch(p, boundSequence(km[i].key))

hasCompletion(p, km) == \E i \in 1..Len(km) : isCompletion(p, boundSequence(km[i].key))

\* the first binding, in table order, that matches p exactly and has an action
\* with a registered handler runs that handler
RECURSIVE fireFirst(_, _, _, _)
fireFirst(p, km, i, hs) ==
    IF i > Len(km) THEN <<>>
    ELSE IF isExactMatch(p, boundSequence(km[i].key))
         THEN LET r == runActions(km[i].actions, 1, hs)
              IN  IF r # <<>> THEN r ELSE fireFirst(p, km, i + 1, hs)
         ELSE fireFirst(p, km, i + 1, hs)

\* mutant: a strict prefix of a bound sequence keeps waiting before an exact
\* match is looked for
dispatch_PrefixFirst(p, km, hs) ==
    IF hasCompletion(p, km)
    THEN [fired |-> <<>>, pending |-> p, timer |-> TRUE]
    ELSE IF hasExactMatch(p, km)
    THEN [fired |-> fireFirst(p, km, 1, hs), pending |-> <<>>, timer |-> FALSE]
    ELSE [fired |-> <<>>, pending |-> <<>>, timer |-> FALSE]

\* mutant: a dead sequence stays pending under a timer
dispatch_DeadKeepsPending(p, km, hs) ==
    IF hasExactMatch(p, km)
    THEN [fired |-> fireFirst(p, km, 1, hs), pending |-> <<>>, timer |-> FALSE]
    ELSE [fired |-> <<>>, pending |-> p, timer |-> TRUE]

\* mutant: an exact match leaves the timer running
dispatch_ExactKeepsTimer(p, km, hs) ==
    IF hasExactMatch(p, km)
    THEN [fired |-> fireFirst(p, km, 1, hs), pending |-> <<>>, timer |-> TRUE]
    ELSE IF hasCompletion(p, km)
    THEN [fired |-> <<>>, pending |-> p, timer |-> TRUE]
    ELSE [fired |-> <<>>, pending |-> <<>>, timer |-> FALSE]

\* exact match, completions or dead, for pendingKeys p after the append
dispatch(p, km, hs) ==
    IF hasExactMatch(p, km)
    THEN [fired |-> fireFirst(p, km, 1, hs), pending |-> <<>>, timer |-> FALSE]
    ELSE IF hasCompletion(p, km)
    THEN [fired |-> <<>>, pending |-> p, timer |-> TRUE]
    ELSE [fired |-> <<>>, pending |-> <<>>, timer |-> FALSE]

\* mutant: a dead sequence is retried with its last combination alone
seqStep_RetryAlone(p, km, hs) ==
    IF Len(p) > 1 /\ ~hasExactMatch(p, km) /\ ~hasCompletion(p, km)
    THEN dispatch(<<p[Len(p)]>>, km, hs)
    ELSE dispatch(p, km, hs)

\* the outcome of a qualifying keydown
seqStep(p, km, hs) == dispatch(p, km, hs)

\* mutant: expiry keeps the pending sequence
seqExpire_Keep(p) == p

\* the timer fires: pendingKeys is cleared
seqExpire(p) == <<>>

\* mutant: a running timer is left in place when a further prefix is pressed
SeqKeyDown_KeepTimer(e) ==
    /\ sqLast' = [op |-> "keydown", e |-> e]
    /\ IF skipsEvent(e, sqFormTags)
       THEN /\ sqFired' = <<>>
            /\ UNCHANGED <<sqPending, sqTimer, sqHist>>
       ELSE /\ Len(sqHist) < MaxSteps
            /\ LET combo == toCombination(e)
                   r == seqStep(Append(sqPending, combo), sqKeymap, sqHandlers)
               IN  /\ sqFired' = r.fired
                   /\ sqPending' = r.pending
                   /\ sqTimer' = IF r.timer
                                 THEN (IF sqTimer # {} THEN sqTimer ELSE {Len(sqHist) + 1})
                                 ELSE {}
                   /\ sqHist' = Append(sqHist, [op |-> "key", combo |-> combo,
                                                before |-> sqPending, fired |-> r.fired])
    /\ UNCHANGED <<sqKeymap, sqHandlers, sqFormTags>>

SeqKeyDown(e) ==
    /\ sqLast' = [op |-> "keydown", e |-> e]
    /\ IF skipsEvent(e, sqFormTags)
       THEN /\ sqFired' = <<>>
            /\ UNCHANGED <<sqPending, sqTimer, sqHist>>
       ELSE /\ Len(sqHist) < MaxSteps
            /\ LET combo == toCombination(e)
                   r == seqStep(Append(sqPending, combo), sqKeymap, sqHandlers)
               IN  /\ sqFired' = r.fired
                   /\ sqPending' = r.pending
                   /\ sqTimer' = IF r.timer THEN {Len(sqHist) + 1} ELSE {}
                   /\ sqHist' = Append(sqHist, [op |-> "key", combo |-> combo,
                                                before |-> sqPending, fired |-> r.fired])
    /\ UNCHANGED <<sqKeymap, sqHandlers, sqFormTags>>

SeqKeyDowns == \E e \in SeqEvents : SeqKeyDown(e)

SeqTimerFires ==
    /\ sqTimer # {}
    /\ Len(sqHist) < MaxSteps
    /\ sqPending' = seqExpire(sqPending)
    /\ sqTimer' = {}
    /\ sqFired' = <<>>
    /\ sqLast' = [op |-> "timer"]
    /\ sqHist' = Append(sqHist, [op |-> "timer", before |-> sqPending])
    /\ UNCHANGED <<sqKeymap, sqHandlers, sqFormTags>>

----------------------------------------------------------------------------
(* formatCombination, parseHotkeyString and normalizeKey as functions of    *)
(* one input: a Sequence, a hotkey string or a raw key.                     *)

MaxCombos == 2

\* normalized key tokens of the combinations
CodecKeys == { <<"k">>, <<"+">>, <<"f","1">>, <<"?">>, <<"-">>, <<"s","p","a","c","e">> }

AllMods == { Mods(c, a, sh, me) : c \in BOOLEAN, a \in BOOLEAN, sh \in BOOLEAN, me \in BOOLEAN }

CodecCombos == { [key |-> k, modifiers |-> m] : k \in CodecKeys, m \in AllMods }

\* the combinations that follow the first one of a sequence
CodecLater ==
    { [key |-> <<"k">>, modifiers |-> Mods(FALSE, FALSE, FALSE, FALSE)],
      [key |-> <<"a","r","r","o","w","u","p">>, modifiers |-> Mods(TRUE, TRUE, TRUE, TRUE)],
      [key |-> <<"?">>, modifiers |-> Mods(FALSE, FALSE, TRUE, FALSE)],
      [key |-> <<"w">>, modifiers |-> Mods(FALSE, TRUE, FALSE, TRUE)] }

RECURSIVE CodecSeqsOf(_)
CodecSeqsOf(n) ==
    IF n = 0 THEN { <<>> }
    ELSE IF n = 1 THEN { <<c>> : c \in CodecCombos }
    ELSE { Append(q, c) : q \in CodecSeqsOf(n - 1), c \in CodecLater }

CodecSeqs == UNION { CodecSeqsOf(n) : n \in 0..MaxCombos }

hEmpty      == <<>>
hBlank      == <<" "," ">>
hShift      == <<"s","h","i","f","t">>
hCtrlAlt    == <<"c","t","r","l","+","a","l","t">>
hCmdOptionX == <<"C","m","d","+","O","p","t","i","o","n","+","X">>
hHyperK     == <<"h","y","p","e","r","+","k">>
hShiftPlus  == <<"s","h","i","f","t","+","+">>
hCommandK2  == <<"c","o","m","m","a","n","d","+","k"," ","c","t","r","l","+","c">>
hPlusK      == <<"+"," ","k">>
hCmdShiftK  == <<"C","m","d","+","S","h","i","f","t","+","K">>
hShiftMetaK == <<"s","h","i","f","t","+","m","e","t","a","+","k">>

CodecStrings ==
    { hEmpty, hBlank, hShift, hCtrlAlt, hCmdOptionX, hHyperK, hShiftPlus, hCommandK2,
      hGTCaps, hCtrlK, hControlK, hCtrlShiftK, hMetaK, hK, hGT, hF1,
      hPlusK, hCmdShiftK, hShiftMetaK }

\* raw keys: special keys, single characters of either case, function keys,
\* other named keys
CodecRawKeys ==
    (DOMAIN keyMap) \cup
    { <<"k">>, <<"K">>, <<"?">>, <<"+">>, <<"1">>, <<"F","1">>, <<"F","1","2">>,
      <<"F","1","3","0">>, <<"f","5">>, kShift, kControl,
      <<"C","a","p","s","L","o","c","k">>, <<"s","p","a","c","e">> }

FormatSeq ==
    /\ cInput.op = "seq" /\ cFormatted = <<>>
    /\ cFormatted' = <<formatCombination(cInput.seq)>>
    /\ UNCHANGED <<cInput, cParsed, cNormal>>

\* the id is parsed back
ParseId ==
    /\ cInput.op = "seq" /\ cFormatted # <<>> /\ cParsed = <<>>
    /\ cParsed' = <<parseHotkeyString(cFormatted[1].id)>>
    /\ UNCHANGED <<cInput, cFormatted, cNormal>>

ParseStr ==
    /\ cInput.op = "str" /\ cParsed = <<>>
    /\ cParsed' = <<parseHotkeyString(cInput.str)>>
    /\ UNCHANGED <<cInput, cFormatted, cNormal>>

\* the id of the Sequence parsed last from a hotkey string
FormatParsed ==
    /\ cInput.op = "str" /\ Len(cFormatted) < Len(cParsed)
    /\ cFormatted' = Append(cFormatted, formatCombination(cParsed[Len(cParsed)]))
    /\ UNCHANGED <<cInput, cParsed, cNormal>>

\* the id of the parsed hotkey string is parsed in its turn
ParseAgain ==
    /\ cInput.op = "str" /\ Len(cParsed) = 1 /\ Len(cFormatted) = 1
    /\ cParsed' = Append(cParsed, parseHotkeyString(cFormatted[1].id))
    /\ UNCHANGED <<cInput, cFormatted, cNormal>>

\* normalizeKey applied to the raw key, then to its own result
Normalize ==
    /\ cInput.op = "key" /\ Len(cNormal) < 2
    /\ cNormal' = Append(cNormal, normalizeKey(IF cNormal = <<>> THEN cInput.key
                                               ELSE cNormal[Len(cNormal)]))
    /\ UNCHANGED <<cInput, cFormatted, cParsed>>

----------------------------------------------------------------------------
(* findConflicts and getConflictsArray (utils.ts).  The km is the list   *)
(* Object.entries(keymap); a Map is the list of its entries in insertion     *)
(* order; action ids and the annotations are strings.                        *)

MaxEntries == 3

hJ == <<"j">>
idA == <<"a">>
idB == <<"b">>
hQW == <<"?"," ","w">>
h2X == <<"2"," ","x">>
ConfKeys == { hK, h2, h2W, h2X, hShiftQ, hQW, hEmpty, hBlank }

\* a value of the keymap: one action id, or an array of action ids
One(id) == [op |-> "one", id |-> id]
Many(ids) == [op |-> "many", ids |-> ids]
ConfValues == { One(idA), Many(<<idA, idB>>) }

\* an integer-like property name: Object.entries lists these first
isArrayIndex(key) ==
    /\ key # <<>>
    /\ \A i \in 1..Len(key) : key[i] \in Digits
    /\ (key[1] = "0" => Len(key) = 1)

digitValue(c) == CHOOSE n \in 0..9 : <<"0","1","2","3","4","5","6","7","8","9">>[n + 1] = c

\* the number an integer-like property name denotes
RECURSIVE toNumber(_)
toNumber(key) ==
    IF key = <<>> THEN 0
    ELSE 10 * toNumber(SubSeq(key, 1, Len(key) - 1)) + digitValue(key[Len(key)])

\* the property key may follow the properties of m in the order of Object.entries
mayFollow(m, key) ==
    /\ \A i \in 1..Len(m) : m[i].key # key
    /\ isArrayIndex(key) =>
          \A i \in 1..Len(m) :
              isArrayIndex(m[i].key) /\ toNumber(m[i].key) < toNumber(key)

\* the lists Object.entries can return: distinct keys, integer-like keys first
\* and in ascending order
RECURSIVE ConfKeymapsOf(_)
ConfKeymapsOf(n) ==
    IF n = 0 THEN { <<>> }
    ELSE UNION { { Append(m, [key |-> k, value |-> v]) :
                     k \in { x \in ConfKeys : mayFollow(m, x) }, v \in ConfValues } :
                 m \in ConfKeymapsOf(n - 1) }

\* the tables of up to n entries
ConfKeymapsUpTo(n) == UNION { ConfKeymapsOf(k) : k \in 0..n }

sPrefixOf  == <<"p","r","e","f","i","x"," ","o","f",":">>
sHasPrefix == <<"h","a","s"," ","p","r","e","f","i","x",":">>

startsWith(s, p) == Len(s) >= Len(p) /\ SubSeq(s, 1, Len(p)) = p

\* mutant: the shift flag of a shifted character is not compared
combinationsEqual_ShiftLenient(a, b) ==
    /\ a.key = b.key
    /\ a.modifiers.ctrl = b.modifiers.ctrl
    /\ a.modifiers.alt = b.modifiers.alt
    /\ (a.modifiers.shift = b.modifiers.shift \/ isShiftedChar(a.key))
    /\ a.modifiers.meta = b.modifiers.meta

combinationsEqual(a, b) ==
    /\ a.key = b.key
    /\ a.modifiers.ctrl = b.modifiers.ctrl
    /\ a.modifiers.alt = b.modifiers.alt
    /\ a.modifiers.shift = b.modifiers.shift
    /\ a.modifiers.meta = b.modifiers.meta

isPrefix(a, b) ==
    /\ Len(a) < Len(b)
    /\ \A i \in 1..Len(a) : combinationsEqual(a[i], b[i])

\* Map.get(key) ?? [] and Map.set(key, value)
mapGet(m, key) ==
    IF \E i \in 1..Len(m) : m[i].key = key
    THEN m[CHOOSE i \in 1..Len(m) : m[i].key = key].actions
    ELSE <<>>
mapSet(m, key, actions) ==
    IF \E i \in 1..Len(m) : m[i].key = key
    THEN [i \in 1..Len(m) |-> IF m[i].key = key THEN Entry(key, actions) ELSE m[i]]
    ELSE Append(m, Entry(key, actions))

\* the parsed entries of the keymap
confEntries(km) ==
    [i \in 1..Len(km) |->
        [ key |-> km[i].key,
          sequence |-> parseHotkeyString(km[i].key),
          actions |-> IF km[i].value.op = "many" THEN km[i].value.ids
                      ELSE <<km[i].value.id>> ]]

\* the grouping pass: keyToActions after the first i entries
RECURSIVE keyToActions(_, _)
keyToActions(entries, i) ==
    IF i = 0 THEN <<>>
    ELSE LET m == keyToActions(entries, i - 1)
         IN  mapSet(m, entries[i].key, mapGet(m, entries[i].key) \o entries[i].actions)

duplicates(entries) ==
    SelectSeq(keyToActions(entries, Len(entries)), LAMBDA e : Len(e.actions) > 1)

\* one annotation: conflicts.set(e.key, [...existing, ...e.actions, note]) unless
\* the note is there already
annotate(conflicts, e, label, other) ==
    LET existing == mapGet(conflicts, e.key)
        note     == label \o <<" ">> \o other
    IN  IF includes(existing, note) THEN conflicts
        ELSE mapSet(conflicts, e.key, existing \o e.actions \o <<note>>)

\* the body of the pairwise loop for the entries a and b
prefixPair(conflicts, a, b) ==
    IF isPrefix(a.sequence, b.sequence)
    THEN annotate(annotate(conflicts, a, sPrefixOf, b.key), b, sHasPrefix, a.key)
    ELSE IF isPrefix(b.sequence, a.sequence)
    THEN annotate(annotate(conflicts, b, sPrefixOf, a.key), a, sHasPrefix, b.key)
    ELSE conflicts

\* the pairwise loop from the pair (i, j) on
RECURSIVE prefixLoop(_, _, _, _)
prefixLoop(conflicts, entries, i, j) ==
    IF i > Len(entries) THEN conflicts
    ELSE IF j > Len(entries) THEN prefixLoop(conflicts, entries, i + 1, i + 2)
    ELSE prefixLoop(prefixPair(conflicts, entries[i], entries[j]), entries, i, j + 1)

findConflicts(km) ==
    LET entries == confEntries(km)
    IN  prefixLoop(duplicates(entries), entries, 1, 2)

hasConflicts(km) == Len(findConflicts(km)) > 0

isNote(a) == startsWith(a, sPrefixOf) \/ startsWith(a, sHasPrefix)

getConflictsArray(km) ==
    LET conflicts == findConflicts(km)
    IN  [i \in 1..Len(conflicts) |->
           [ key |-> conflicts[i].key,
             actions |-> SelectSeq(conflicts[i].actions, LAMBDA a : ~isNote(a)),
             type |-> IF \E n \in 1..Len(conflicts[i].actions) : isNote(conflicts[i].actions[n])
                      THEN "prefix" ELSE "duplicate" ]]

FindConflicts ==
    /\ cfConflicts.op = "none"
    /\ cfConflicts' = [op |-> "map", conflicts |-> findConflicts(cfKeymap)]
    /\ UNCHANGED cfKeymap

HasConflicts ==
    /\ cfConflicts.op = "none"
    /\ cfConflicts' = [op |-> "has", value |-> hasConflicts(cfKeymap)]
    /\ UNCHANGED cfKeymap

GetConflictsArray ==
    /\ cfConflicts.op = "none"
    /\ cfConflicts' = [op |-> "array", conflicts |-> findConflicts(cfKeymap),
                                      array |-> getConflictsArray(cfKeymap)]
    /\ UNCHANGED cfKeymap

----------------------------------------------------------------------------
(* useEditableHotkeys (useEditableHotkeys.ts), without a storageKey.  An     *)
(* object is the list of its entries in property order: integer-like keys    *)
(* in ascending order first, then the other keys in insertion order.         *)

objHas(obj, key) == \E i \in 1..Len(obj) : obj[i].key = key
objGet(obj, key) == obj[CHOOSE i \in 1..Len(obj) : obj[i].key = key].value

\* the position a new property takes
objSlot(obj, key) ==
    IF isArrayIndex(key)
    THEN 1 + Cardinality({ i \in 1..Len(obj) :
                 isArrayIndex(obj[i].key) /\ toNumber(obj[i].key) < toNumber(key) })
    ELSE Len(obj) + 1

\* obj[key] = value
objSet(obj, key, value) ==
    IF objHas(obj, key)
    THEN [i \in 1..Len(obj) |-> IF obj[i].key = key THEN [key |-> key, value |-> value]
                                 ELSE obj[i]]
    ELSE LET at == objSlot(obj, key)
         IN  SubSeq(obj, 1, at - 1) \o <<[key |-> key, value |-> value]>>
                \o SubSeq(obj, at, Len(obj))

\* { ...prev, ...more }
RECURSIVE spread(_, _)
spread(prev, more) ==
    IF more = <<>> THEN prev
    ELSE spread(objSet(prev, more[1].key, more[1].value), Tail(more))

Undefined == [op |-> "undefined"]

\* Array.isArray(action) ? action : [action]
actionsOf(value) == IF value.op = "many" THEN value.ids ELSE <<value.id>>

\* for (const a of actions) actionToKey[a] = key
RECURSIVE bindAll(_, _, _)
bindAll(actionToKey, actions, key) ==
    IF actions = <<>> THEN actionToKey
    ELSE bindAll(objSet(actionToKey, actions[1], key), Tail(actions), key)

\* the loop over Object.entries of the defaults or of the overrides
RECURSIVE invert(_, _)
invert(actionToKey, table) ==
    IF table = <<>> THEN actionToKey
    ELSE IF table[1].value = Undefined THEN invert(actionToKey, Tail(table))
    ELSE invert(bindAll(actionToKey, actionsOf(table[1].value), table[1].key), Tail(table))

\* if (result[key])
isTruthy(value) == value.op = "many" \/ value.id # <<>>

\* the loop that rebuilds the key -> action map
RECURSIVE rebuild(_, _)
rebuild(result, actionToKey) ==
    IF actionToKey = <<>> THEN result
    ELSE LET action == actionToKey[1].key
             key    == actionToKey[1].value
         IN  rebuild(
               IF objHas(result, key) /\ isTruthy(objGet(result, key))
               THEN objSet(result, key, Many(actionsOf(objGet(result, key)) \o <<action>>))
               ELSE objSet(result, key, One(action)),
               Tail(actionToKey))

\* mutant: the overrides are spread over the defaults key by key
mergeKeymap_Spread(defs, over) == spread(defs, over)

\* the useMemo that merges the defaults with the overrides
mergeKeymap(defs, over) == rebuild(<<>>, invert(invert(<<>>, defs), over))

EdKeys == { hK, hJ, h2 }
EdActions == { idA, idB }

Table1(k, v) == << [key |-> k, value |-> v] >>
Table2(k1, v1, k2, v2) == << [key |-> k1, value |-> v1], [key |-> k2, value |-> v2] >>

\* the defaults tables
EdDefaults ==
    { Table2(hK, One(idA), hJ, One(idB)),
      Table2(hK, One(idA), hJ, One(idA)),
      Table1(hK, Many(<<idA, idB>>)),
      Table2(h2, One(idB), hK, One(idA)) }

\* the arguments of setKeymap
EdPatches ==
    { Table1(hJ, Many(<<idA, idB>>)),
      Table2(h2, One(idA), hK, One(idB)),
      Table1(hK, Undefined) }

setBinding(action, key) ==
    /\ overrides' = spread(overrides, Table1(key, One(action)))
    /\ edKeymap' = mergeKeymap(defaults, overrides')
    /\ edLast' = [op |-> "setBinding", action |-> action, key |-> key]
    /\ UNCHANGED defaults

setKeymap(newOverrides) ==
    /\ overrides' = spread(overrides, newOverrides)
    /\ edKeymap' = mergeKeymap(defaults, overrides')
    /\ edLast' = [op |-> "setKeymap", newOverrides |-> newOverrides]
    /\ UNCHANGED defaults

reset ==
    /\ overrides' = <<>>
    /\ edKeymap' = mergeKeymap(defaults, overrides')
    /\ edLast' = [op |-> "reset"]
    /\ UNCHANGED defaults

SetBindings == \E action \in EdActions, key \in EdKeys : setBinding(action, key)
SetKeymaps == \E newOverrides \in EdPatches : setKeymap(newOverrides)

----------------------------------------------------------------------------
(* useRecordHotkey, the single-combination recorder (lines 38-171).  The    *)
(* listeners are attached exactly while isRecording; r1Calls are the         *)
(* collaborator calls of the last step.                                      *)

R1Keys == { <<"g">>, <<"T">>, kShift, kMeta, kEscape }

\* lines 54-61
r1Cancel ==
    /\ r1IsRecording' = FALSE
    /\ r1ActiveKeys' = <<>>
    /\ r1PressedKeys' = <<>>
    /\ r1HasNonModifier' = FALSE
    /\ r1CurrentCombo' = <<>>
    /\ r1Calls' = <<[op |-> "cancel"]>>
    /\ r1LastOp' = [op |-> "cancel"]
    /\ UNCHANGED r1Combination

\* lines 63-73
r1StartRecording ==
    /\ r1IsRecording' = TRUE
    /\ r1Combination' = <<>>
    /\ r1ActiveKeys' = <<>>
    /\ r1PressedKeys' = <<>>
    /\ r1HasNonModifier' = FALSE
    /\ r1CurrentCombo' = <<>>
    /\ r1Calls' = <<>>
    /\ r1LastOp' = [op |-> "start"]

\* lines 78-118
r1HandleKeyDown(key, mods) ==
    /\ r1IsRecording
    /\ LET pressed == setAdd(r1PressedKeys, key)
           found   == firstNonModifier(pressed)
           comboKey == IF found = <<>> THEN <<>> ELSE normalizeKey(found[1])
           combo   == [key |-> comboKey, modifiers |-> mods]
       IN  /\ r1PressedKeys' = pressed
           /\ r1HasNonModifier' = IF found # <<>> THEN TRUE ELSE r1HasNonModifier
           /\ IF comboKey # <<>>
              THEN r1CurrentCombo' = <<combo>> /\ r1ActiveKeys' = <<combo>>
              ELSE /\ UNCHANGED r1CurrentCombo
                   /\ r1ActiveKeys' = <<[key |-> <<>>, modifiers |-> mods]>>
    /\ r1Calls' = <<>>
    /\ r1LastOp' = [op |-> "keydown", key |-> key]
    /\ UNCHANGED <<r1IsRecording, r1Combination>>

\* mutant: the recorder keeps recording after a capture
r1Complete_KeepsRecording(combo) ==
    /\ r1PressedKeys' = <<>>
    /\ r1HasNonModifier' = FALSE
    /\ r1CurrentCombo' = <<>>
    /\ r1Combination' = <<combo>>
    /\ r1ActiveKeys' = <<>>
    /\ r1Calls' = <<[op |-> "capture", combo |-> combo,
                     display |-> formatCombination(<<combo>>)]>>
    /\ UNCHANGED r1IsRecording

\* lines 135-147; formatCombination of one KeyCombination is that of the
\* sequence of length one
r1Complete(combo) ==
    /\ r1PressedKeys' = <<>>
    /\ r1HasNonModifier' = FALSE
    /\ r1CurrentCombo' = <<>>
    /\ r1Combination' = <<combo>>
    /\ r1IsRecording' = FALSE
    /\ r1ActiveKeys' = <<>>
    /\ r1Calls' = <<[op |-> "capture", combo |-> combo,
                     display |-> formatCombination(<<combo>>)]>>

\* lines 120-149
r1HandleKeyUp(key) ==
    /\ r1IsRecording
    /\ LET pressed == setDelete(r1PressedKeys, key)
       IN  IF shouldComplete(pressed, key, r1HasNonModifier) /\ r1HasNonModifier
              /\ r1CurrentCombo # <<>>
           THEN r1Complete(r1CurrentCombo[1])
           ELSE /\ r1PressedKeys' = pressed
                /\ r1Calls' = <<>>
                /\ UNCHANGED <<r1IsRecording, r1Combination, r1ActiveKeys,
                               r1HasNonModifier, r1CurrentCombo>>
    /\ r1LastOp' = [op |-> "keyup", key |-> key, held |-> r1PressedKeys,
                    provisional |-> r1CurrentCombo]

R1KeyDown == \E key \in R1Keys, mods \in RecMods : r1HandleKeyDown(key, mods)

R1KeyUp == \E key \in R1Keys : r1HandleKeyUp(key)

----------------------------------------------------------------------------
(* Specifications *)

CodecIdle == cInput = None /\ cFormatted = <<>> /\ cParsed = <<>> /\ cNormal = <<>>

ConfIdle == cfKeymap = <<>> /\ cfConflicts = None

EditIdle == defaults = <<>> /\ overrides = <<>> /\ edKeymap = <<>> /\ edLast = None

OneIdle ==
    /\ r1IsRecording = FALSE /\ r1Combination = <<>> /\ r1ActiveKeys = <<>>
    /\ r1PressedKeys = <<>> /\ r1HasNonModifier = FALSE /\ r1CurrentCombo = <<>>
    /\ r1Calls = <<>> /\ r1LastOp = None

SeqIdle ==
    /\ sqKeymap = <<>> /\ sqHandlers = {} /\ sqFormTags = FALSE /\ sqPending = <<>>
    /\ sqTimer = {} /\ sqFired = <<>> /\ sqLast = None /\ sqHist = <<>>

RecIdle ==
    /\ recOptions = None
    /\ isRecording = FALSE /\ pendingKeys = <<>> /\ pressedKeys = <<>>
    /\ hasNonModifier = FALSE /\ currentCombo = <<>> /\ activeKeys = <<>>
    /\ sequence = <<>> /\ timeoutRef = 0 /\ timers = {}
    /\ calls = <<>> /\ lastOp = None

InitMatch ==
    /\ mEvent \in { KeyEvent(k, m, "body") : k \in MatchKeys, m \in BoolSets }
    /\ mHotkey \in MatchHotkeys
    /\ mResult = None
    /\ HkIdle /\ SeqIdle /\ RecIdle /\ CodecIdle /\ ConfIdle /\ EditIdle /\ OneIdle

NextMatch == Match /\ UNCHANGED <<hkVars, seqVars, recVars, codecVars, confVars, editVars, oneVars>>

SpecMatch == InitMatch /\ [][NextMatch]_vars

Options == [enabled : BOOLEAN, preventDefault : BOOLEAN,
            stopPropagation : BOOLEAN, enableOnFormTags : BOOLEAN]

InitHotkeys ==
    /\ keymap \in Keymaps
    /\ handlers \in HandlerSets
    /\ options \in Options
    /\ hkEvent \in { [op |-> "dispatch", e |-> e] : e \in HkEvents }
    /\ hkFired = <<>>
    /\ MatchIdle /\ SeqIdle /\ RecIdle /\ CodecIdle /\ ConfIdle /\ EditIdle /\ OneIdle

NextHotkeys == HkKeyDown /\ UNCHANGED <<matchVars, seqVars, recVars, codecVars, confVars, editVars, oneVars>>

SpecHotkeys == InitHotkeys /\ [][NextHotkeys]_vars

RecOptions == [preventDefault : BOOLEAN]

InitRec ==
    /\ recOptions \in RecOptions
    /\ isRecording = FALSE /\ pendingKeys = <<>> /\ pressedKeys = <<>>
    /\ hasNonModifier = FALSE /\ currentCombo = <<>> /\ activeKeys = <<>>
    /\ sequence = <<>> /\ timeoutRef = 0 /\ timers = {}
    /\ calls = <<>> /\ lastOp = None
    /\ MatchIdle /\ HkIdle /\ SeqIdle /\ CodecIdle /\ ConfIdle /\ EditIdle /\ OneIdle

InitSeq ==
    /\ \E c \in SeqConfigs : sqKeymap = c.keymap /\ sqHandlers = c.handlers
    /\ sqFormTags \in BOOLEAN
    /\ sqPending = <<>> /\ sqTimer = {} /\ sqFired = <<>>
    /\ sqLast = None /\ sqHist = <<>>
    /\ MatchIdle /\ HkIdle /\ RecIdle /\ CodecIdle /\ ConfIdle /\ EditIdle /\ OneIdle

NextSeq ==
    /\ \/ SeqKeyDowns
       \/ SeqTimerFires
    /\ UNCHANGED <<matchVars, hkVars, recVars, codecVars, confVars, editVars, oneVars>>

SpecSeq == InitSeq /\ [][NextSeq]_vars

NextRec ==
    /\ \/ startRecording
       \/ Cancel
       \/ RecKeyDown
       \/ RecKeyUp
       \/ TimerFires
    /\ UNCHANGED <<matchVars, hkVars, seqVars, codecVars, confVars, editVars, oneVars>>

SpecRec == InitRec /\ [][NextRec]_vars

----------------------------------------------------------------------------
(* The recorder and the matcher on one input stream.  The recorder listens  *)
(* on window in the capture phase while isRecording, the matcher on its     *)
(* target (window by default) in the bubble phase: a keydown reaches the    *)
(* recorder first and the matcher only if its propagation was not stopped;  *)
(* the matcher has no keyup listener.                                       *)

hGG == <<"g"," ","g">>

TableStream == << Entry(hGG, <<"gotoTop">>) >>

StreamKeys == { <<"g">>, kEscape }

StreamKeyDown(key) ==
    LET e == KeyEvent(key, NoMods, "body")
        stopped == isRecording /\ stopsPropagation(recOptions)
    IN  /\ IF isRecording
           THEN recHandleKeyDown(key, Mods(FALSE, FALSE, FALSE, FALSE))
           ELSE UNCHANGED recVars
        /\ IF stopped
           THEN UNCHANGED seqVars
           ELSE SeqKeyDown(e)

StreamKeyDowns == \E key \in StreamKeys : StreamKeyDown(key)

StreamKeyUps ==
    \E key \in StreamKeys : recHandleKeyUp(key) /\ UNCHANGED seqVars

InitStream ==
    /\ recOptions \in RecOptions
    /\ isRecording = FALSE /\ pendingKeys = <<>> /\ pressedKeys = <<>>
    /\ hasNonModifier = FALSE /\ currentCombo = <<>> /\ activeKeys = <<>>
    /\ sequence = <<>> /\ timeoutRef = 0 /\ timers = {}
    /\ calls = <<>> /\ lastOp = None
    /\ sqKeymap = TableStream /\ sqHandlers = {"gotoTop"} /\ sqFormTags = FALSE
    /\ sqPending = <<>> /\ sqTimer = {} /\ sqFired = <<>>
    /\ sqLast = None /\ sqHist = <<>>
    /\ MatchIdle /\ HkIdle /\ CodecIdle /\ ConfIdle /\ EditIdle /\ OneIdle

NextStream ==
    /\ \/ startRecording /\ UNCHANGED seqVars
       \/ Cancel /\ UNCHANGED seqVars
       \/ StreamKeyDowns
       \/ StreamKeyUps
       \/ TimerFires /\ UNCHANGED seqVars
       \/ SeqTimerFires /\ UNCHANGED recVars
    /\ UNCHANGED <<matchVars, hkVars, codecVars, confVars, editVars, oneVars>>

SpecStream == InitStream /\ [][NextStream]_vars

InitCodec ==
    /\ cInput \in { [op |-> "seq", seq |-> q] : q \in CodecSeqs } \cup
                  { [op |-> "str", str |-> h] : h \in CodecStrings } \cup
                  { [op |-> "key", key |-> k] : k \in CodecRawKeys }
    /\ cFormatted = <<>> /\ cParsed = <<>> /\ cNormal = <<>>
    /\ MatchIdle /\ HkIdle /\ SeqIdle /\ RecIdle /\ ConfIdle /\ EditIdle /\ OneIdle

NextCodec ==
    /\ \/ FormatSeq
       \/ ParseId
       \/ ParseStr
       \/ FormatParsed
       \/ ParseAgain
       \/ Normalize
    /\ UNCHANGED <<matchVars, hkVars, seqVars, recVars, confVars, editVars, oneVars>>

SpecCodec == InitCodec /\ [][NextCodec]_vars

InitConf ==
    /\ cfKeymap \in ConfKeymapsUpTo(MaxEntries)
    /\ cfConflicts = None
    /\ MatchIdle /\ HkIdle /\ SeqIdle /\ RecIdle /\ CodecIdle /\ EditIdle /\ OneIdle

NextConf ==
    /\ \/ FindConflicts
       \/ HasConflicts
       \/ GetConflictsArray
    /\ UNCHANGED <<matchVars, hkVars, seqVars, recVars, codecVars, editVars, oneVars>>

SpecConf == InitConf /\ [][NextConf]_vars

InitEdit ==
    /\ defaults \in EdDefaults
    /\ overrides = <<>>
    /\ edKeymap = mergeKeymap(defaults, overrides)
    /\ edLast = None
    /\ MatchIdle /\ HkIdle /\ SeqIdle /\ RecIdle /\ CodecIdle /\ ConfIdle /\ OneIdle

NextEdit ==
    /\ \/ SetBindings
       \/ SetKeymaps
       \/ reset
    /\ UNCHANGED <<matchVars, hkVars, seqVars, recVars, codecVars, confVars, oneVars>>

SpecEdit == InitEdit /\ [][NextEdit]_vars

InitOne ==
    /\ OneIdle
    /\ MatchIdle /\ HkIdle /\ SeqIdle /\ RecIdle /\ CodecIdle /\ ConfIdle /\ EditIdle

NextOne ==
    /\ \/ r1StartRecording
       \/ r1Cancel
       \/ R1KeyDown
       \/ R1KeyUp
    /\ UNCHANGED <<matchVars, hkVars, seqVars, recVars, codecVars, confVars, editVars>>

SpecOne == InitOne /\ [][NextOne]_vars

----------------------------------------------------------------------------
(* Properties of useHotkeys *)

\* the bound combination and the event of the state
mBound == parseHotkey(mHotkey)

mOtherFlagsAndKey ==
    /\ mEvent.ctrlKey = mBound.ctrl
    /\ mEvent.altKey = mBound.alt
    /\ mEvent.metaKey = mBound.meta
    /\ normalizeKey(mEvent.key) = mBound.key

PlainEvent(k, c, a, sh, me) ==
    [key |-> k, ctrlKey |-> c, altKey |-> a, shiftKey |-> sh, metaKey |-> me,
     target |-> "body"]

\* the bindings of the table that match the dispatched event and have a handler
hkMatching(i) == matchesHotkey(hkEvent.e, parseHotkey(keymap[i].key))
hkHandled(i)  == \E j \in 1..Len(keymap[i].actions) : keymap[i].actions[j] \in handlers
hkEligible    == { i \in 1..Len(keymap) : hkMatching(i) /\ hkHandled(i) }
hkFirst       == CHOOSE i \in hkEligible : \A k \in hkEligible : i <= k
hkFirstAction(i) ==
    LET as == keymap[i].actions
        j  == CHOOSE n \in 1..Len(as) : as[n] \in handlers /\ \A k \in 1..(n - 1) : as[k] \notin handlers
    IN  as[j]

\* C3: one keydown invokes at most one handler; an invoked handler is that of the
\* first binding, in table order, that matches the event and has an action with a
\* registered handler, and of that binding's first action id with a handler;
\* matching bindings without a handler are passed over.
C3_FirstMatchOnly ==
    hkEvent.op = "handled" =>
        /\ Len(hkFired) <= 1
        /\ hkFired # <<>> => (hkEligible # {} /\ hkFired = <<hkFirstAction(hkFirst)>>)
        /\ (hkEligible # {} /\ ~skipsEvent(hkEvent.e, options.enableOnFormTags))
              => hkFired # <<>>

\* a binding that matches but has no handler is passed over for a later one
C3_Witness ==
    /\ hkEvent.op = "handled"
    /\ hkFired = <<"other">>
    /\ hkMatching(1) /\ ~hkHandled(1) /\ hkFirst = 2

\* C5: for an event whose raw key is a shift-required character, a bound combo
\* that does not require shift matches whatever the event's shift flag is, and a
\* bound combo that requires shift matches only when the shift flag is set; the
\* event '?' with shift held matches both "shift+?" and "?".
C5_ShiftLeniency ==
    /\ (mResult.op = "match" /\ isShiftedChar(mEvent.key)) =>
          /\ ~mBound.shift => (mResult.matches <=> mOtherFlagsAndKey)
          /\ mBound.shift => (mResult.matches <=> (mOtherFlagsAndKey /\ mEvent.shiftKey))
    /\ (/\ mResult.op = "match"
        /\ mEvent = PlainEvent(<<"?">>, FALSE, FALSE, TRUE, FALSE)
        /\ mHotkey \in {hShiftQ, hQuestion}) => mResult.matches

C5_Witness ==
    /\ mResult.op = "match" /\ mResult.matches
    /\ mEvent = PlainEvent(<<"?">>, FALSE, FALSE, TRUE, FALSE)
    /\ mHotkey = hQuestion /\ ~mBound.shift

\* C6: for an event whose raw key is not a shift-required character, the event
\* matches exactly when its ctrl, alt, shift and meta flags equal the bound
\* combo's and its normalized key equals the bound key token; bound "ctrl+k"
\* matches ctrl+K and does not match ctrl+shift+K.
C6_StrictMatch ==
    /\ (mResult.op = "match" /\ ~isShiftedChar(mEvent.key)) =>
          (mResult.matches <=> (mOtherFlagsAndKey /\ mEvent.shiftKey = mBound.shift))
    /\ (mResult.op = "match" /\ mHotkey = hCtrlK) =>
          /\ mEvent = PlainEvent(<<"K">>, TRUE, FALSE, FALSE, FALSE) => mResult.matches
          /\ mEvent = PlainEvent(<<"K">>, TRUE, FALSE, TRUE, FALSE) => ~mResult.matches

C6_Witness ==
    /\ mResult.op = "match" /\ ~mResult.matches
    /\ mEvent = PlainEvent(<<"K">>, TRUE, FALSE, TRUE, FALSE)
    /\ mHotkey = hCtrlK

----------------------------------------------------------------------------
(* Properties of the sequence matcher *)

sqN == Len(sqHist)

\* the combinations of the last n qualifying keydowns, when no timer fired
\* after the first of them
lastKeys(n) == [k \in 1..n |-> sqHist[sqN - n + k].combo]

\* the last n steps are qualifying keydowns and the first met empty pendingKeys
pressedInOrder(n) ==
    /\ n >= 1 /\ n <= sqN
    /\ \A k \in 1..n : sqHist[sqN - n + k].op = "key"
    /\ sqHist[sqN - n + 1].before = <<>>

\* binding i is the first binding of the table that matches p exactly and has
\* an action with a registered handler
firstHandled(i, p) ==
    /\ isExactMatch(p, parseHotkeyString(sqKeymap[i].key))
    /\ runActions(sqKeymap[i].actions, 1, sqHandlers) # <<>>
    /\ \A j \in 1..(i - 1) :
          ~ /\ isExactMatch(p, parseHotkeyString(sqKeymap[j].key))
            /\ runActions(sqKeymap[j].actions, 1, sqHandlers) # <<>>

\* no shorter run of the same keydowns is itself a bound sequence
noShadow(p) == \A k \in 1..(Len(p) - 1) : ~hasExactMatch(SubSeq(p, 1, k), sqKeymap)

\* the handlers run by the last n qualifying keydowns: none before the last,
\* and on the last the first registered action of binding i
firesOnLast(i, n) ==
    /\ sqHist[sqN].fired = runActions(sqKeymap[i].actions, 1, sqHandlers)
    /\ Len(sqHist[sqN].fired) = 1
    /\ \A k \in 1..(n - 1) : sqHist[sqN - n + k].fired = <<>>

kG == [key |-> <<"g">>, modifiers |-> Mods(FALSE, FALSE, FALSE, FALSE)]
kT == [key |-> <<"t">>, modifiers |-> Mods(FALSE, FALSE, FALSE, FALSE)]
kX == [key |-> <<"x">>, modifiers |-> Mods(FALSE, FALSE, FALSE, FALSE)]

\* C1: with the table {"g t": gotoTable, "g h": gotoHome} and both handlers
\* registered, g from empty pendingKeys followed by t with no timer expiry in
\* between runs gotoTable once, on the t, and nothing else; and in every table,
\* pressing in order the combinations of a bound sequence, from empty
\* pendingKeys and with no expiry in between, runs the handler of the first
\* binding that matches them on the last keydown, provided no shorter run of
\* the same keydowns is itself a bound sequence.
C1_SequenceFires ==
    /\ (sqKeymap = TableGoto /\ pressedInOrder(2) /\ lastKeys(2) = <<kG, kT>>) =>
           /\ sqHist[sqN].fired = <<"gotoTable">>
           /\ sqHist[sqN - 1].fired = <<>>
    /\ \A i \in 1..Len(sqKeymap) :
          LET n == Len(parseHotkeyString(sqKeymap[i].key))
          IN  (pressedInOrder(n) /\ firstHandled(i, lastKeys(n)) /\ noShadow(lastKeys(n)))
                  => firesOnLast(i, n)

\* g then t was pressed under the table {"g t", "g h"}
C1_Witness ==
    /\ sqKeymap = TableGoto /\ pressedInOrder(2) /\ lastKeys(2) = <<kG, kT>>
    /\ sqFired = <<"gotoTable">> /\ sqPending = <<>>

\* C1 as stated: pressing in order the combinations of any bound sequence, from
\* empty pendingKeys and with no expiry in between, runs its handler on the
\* last keydown.
C1_Original ==
    \A i \in 1..Len(sqKeymap) :
        LET n == Len(parseHotkeyString(sqKeymap[i].key))
        IN  (pressedInOrder(n) /\ firstHandled(i, lastKeys(n))) => firesOnLast(i, n)

\* C2: when the timer fires no handler runs and pendingKeys becomes empty, and
\* the next qualifying keydown is matched as a sequence of one combination;
\* under {"g t", "g h"}, g, expiry, t runs nothing.
C2_Expiry ==
    /\ sqLast.op = "timer" => (sqFired = <<>> /\ sqPending = <<>> /\ sqTimer = {})
    /\ \A j \in 2..sqN :
          (sqHist[j - 1].op = "timer" /\ sqHist[j].op = "key") =>
              /\ sqHist[j].before = <<>>
              /\ sqHist[j].fired = fireFirst(<<sqHist[j].combo>>, sqKeymap, 1, sqHandlers)
    /\ (/\ sqKeymap = TableGoto /\ sqN = 3
        /\ sqHist[1].op = "key" /\ sqHist[1].combo = kG
        /\ sqHist[2].op = "timer"
        /\ sqHist[3].op = "key" /\ sqHist[3].combo = kT) =>
           /\ sqHist[1].fired = <<>> /\ sqHist[3].fired = <<>>
           /\ sqPending = <<>>

\* g, expiry of the timer, t under {"g t", "g h"}
C2_Witness ==
    /\ sqKeymap = TableGoto /\ sqN = 3
    /\ sqHist[1].op = "key" /\ sqHist[1].combo = kG
    /\ sqHist[2].op = "timer" /\ sqHist[2].before = <<kG>>
    /\ sqHist[3].op = "key" /\ sqHist[3].combo = kT
    /\ sqLast.op = "keydown"

\* pendingKeys after step j of the history
pendingAfter(j) == IF j = sqN THEN sqPending ELSE sqHist[j + 1].before

\* C4: a qualifying keydown after which pendingKeys is neither an exact match
\* nor a strict prefix of a bound sequence runs no handler and leaves
\* pendingKeys empty, even when its combination alone is bound; under
\* {"g t", "x"}, g then x runs nothing.
C4_DeadSequence ==
    /\ \A j \in 1..sqN :
          LET p == IF sqHist[j].op = "key"
                   THEN Append(sqHist[j].before, sqHist[j].combo) ELSE <<>>
          IN  (/\ sqHist[j].op = "key"
               /\ ~hasExactMatch(p, sqKeymap) /\ ~hasCompletion(p, sqKeymap)) =>
                  sqHist[j].fired = <<>> /\ pendingAfter(j) = <<>>
    /\ (sqKeymap = TableDead /\ pressedInOrder(2) /\ lastKeys(2) = <<kG, kX>>) =>
           /\ sqHist[sqN].fired = <<>> /\ sqHist[sqN - 1].fired = <<>>
           /\ sqPending = <<>> /\ sqTimer = {}

\* g then x was pressed under {"g t", "x"}, x alone being bound to a handler
C4_Witness ==
    /\ sqKeymap = TableDead /\ pressedInOrder(2) /\ lastKeys(2) = <<kG, kX>>
    /\ sqHist[sqN].before = <<kG>>
    /\ fireFirst(<<kX>>, sqKeymap, 1, sqHandlers) = <<"close">>

\* the keydown is on a form-editable element with enableOnFormTags unset, or
\* is the keydown of a modifier key
isIgnored(e, formTags) ==
    \/ (~formTags /\ e.target \in {"input", "textarea", "select", "contenteditable"})
    \/ e.key \in {kControl, kAlt, kShift, kMeta}

\* C7: a keydown on a form-editable element (enableOnFormTags unset) and a
\* keydown of a modifier key alone run no handler and leave pendingKeys and
\* the sequence timer as they were.
C7_IgnoredKeydown ==
    [][ (sqLast'.op = "keydown" /\ isIgnored(sqLast'.e, sqFormTags)) =>
            /\ sqFired' = <<>>
            /\ sqPending' = sqPending
            /\ sqTimer' = sqTimer ]_vars

\* Shift alone was pressed while a sequence was pending and its timer running
C7_Witness ==
    /\ sqLast.op = "keydown" /\ sqLast.e.key = kShift /\ sqLast.e.target = "body"
    /\ sqPending # <<>> /\ sqTimer # {} /\ sqFired = <<>>

\* the pendingKeys that step j of the history matched, after the append
matchedAt(j) == Append(sqHist[j].before, sqHist[j].combo)

\* C25: after a qualifying keydown whose pendingKeys is an exact match of a
\* bound sequence, pendingKeys is empty and no sequence timer is outstanding,
\* so no expiry follows it and the next qualifying keydown starts a sequence
\* of one combination.
C25_ExactMatchClears ==
    \A j \in 1..sqN :
        (sqHist[j].op = "key" /\ hasExactMatch(matchedAt(j), sqKeymap)) =>
            /\ pendingAfter(j) = <<>>
            /\ j = sqN => sqTimer = {}
            /\ j < sqN => sqHist[j + 1].op = "key"

\* g then t ran gotoTable under {"g t", "g h"} and a further key was pressed
C25_Witness ==
    /\ sqKeymap = TableGoto /\ sqN = 3
    /\ sqHist[2].op = "key" /\ matchedAt(2) = <<kG, kT>>
    /\ sqHist[2].fired = <<"gotoTable">>
    /\ sqHist[3].op = "key" /\ sqHist[3].before = <<>>

\* C26: a qualifying keydown after which pendingKeys has no exact match but is
\* a strict prefix of a bound sequence runs no handler and keeps pendingKeys;
\* the one outstanding timer is the timer armed by this keydown, not a timer
\* of an earlier key of the sequence.
C26_PrefixRearmsTimer ==
    \A j \in 1..sqN :
        (/\ sqHist[j].op = "key"
         /\ ~hasExactMatch(matchedAt(j), sqKeymap)
         /\ hasCompletion(matchedAt(j), sqKeymap)) =>
            /\ sqHist[j].fired = <<>>
            /\ pendingAfter(j) = matchedAt(j)
            /\ j = sqN => sqTimer = {sqN}

\* g then t under {"g t h"}: both are prefixes, the timer is the timer of t
C26_Witness ==
    /\ sqKeymap = TableLong /\ sqN = 2
    /\ sqHist[1].op = "key" /\ sqHist[2].op = "key"
    /\ sqPending = <<kG, kT>> /\ sqTimer = {2}

\* C34: in every state of the matcher between events a sequence timer is
\* outstanding if and only if pendingKeys is not empty, and pendingKeys, when
\* not empty, is a strict prefix of at least one bound sequence.
C34_TimerInvariant ==
    /\ sqTimer # {} <=> sqPending # <<>>
    /\ Cardinality(sqTimer) <= 1
    /\ sqPending # <<>> =>
          \E i \in 1..Len(sqKeymap) :
              LET b == parseHotkeyString(sqKeymap[i].key)
              IN  /\ Len(sqPending) < Len(b)
                  /\ \A n \in 1..Len(sqPending) : comboMatches(sqPending[n], b[n])

\* g is pending again under its own timer after the dead sequence g, x
C34_Witness ==
    /\ sqKeymap = TableGoto /\ sqN = 3
    /\ sqHist[2].op = "key" /\ sqHist[2].before = <<kG>> /\ sqHist[2].fired = <<>>
    /\ sqHist[3].op = "key" /\ sqHist[3].before = <<>>
    /\ sqPending = <<kG>> /\ sqTimer = {3}

----------------------------------------------------------------------------
(* Properties of the codec *)

comboShiftPlus == [key |-> <<"+">>, modifiers |-> Mods(FALSE, FALSE, TRUE, FALSE)]

\* C16: for every Sequence the engine can produce, '+' among its keys,
\* parsing its canonical id gives the Sequence back, combination by
\* combination.
C16_RoundTrip ==
    (cInput.op = "seq" /\ cParsed # <<>>) => cParsed[1] = cInput.seq

\* shift with the key '+' has the id "shift++", which parses to an empty key
C16_Witness ==
    /\ cInput.op = "seq" /\ cInput.seq = <<comboShiftPlus>>
    /\ cFormatted # <<>> /\ cFormatted[1].id = hShiftPlus
    /\ cParsed # <<>> /\ Len(cParsed[1]) = 1
    /\ cParsed[1][1].key = <<>>
    /\ cParsed[1][1].modifiers = comboShiftPlus.modifiers

\* C17: normalizeKey applied to its own result gives that result, for every
\* raw key.
C17_Idempotent ==
    Len(cNormal) = 2 => cNormal[2] = cNormal[1]

\* the space key became "space" and stayed "space"; so did an upper-case letter
C17_Witness ==
    /\ cInput.op = "key" /\ cInput.key \in { <<" ">>, <<"K">> }
    /\ Len(cNormal) = 2 /\ cNormal[1] # cInput.key

\* the canonical id, character by character
comboId(c) ==
    (IF c.modifiers.ctrl THEN <<"c","t","r","l","+">> ELSE <<>>) \o
    (IF c.modifiers.meta THEN <<"m","e","t","a","+">> ELSE <<>>) \o
    (IF c.modifiers.alt THEN <<"a","l","t","+">> ELSE <<>>) \o
    (IF c.modifiers.shift THEN <<"s","h","i","f","t","+">> ELSE <<>>) \o
    c.key

RECURSIVE seqId(_)
seqId(q) ==
    IF q = <<>> THEN <<>>
    ELSE IF Len(q) = 1 THEN comboId(q[1])
    ELSE comboId(q[1]) \o <<" ">> \o seqId(Tail(q))

\* C18: the id of every Sequence lists, for each combination, the set modifiers
\* in the order ctrl, meta, alt, shift and then the key, joined by '+', the
\* combinations joined by one space; isSequence holds exactly for more than
\* one combination.
C18_CanonicalId ==
    (cInput.op = "seq" /\ cFormatted # <<>>) =>
        /\ cFormatted[1].id = seqId(cInput.seq)
        /\ cFormatted[1].isSequence = (Len(cInput.seq) > 1)

\* a sequence of two combinations, the first with all four modifiers
C18_Witness ==
    /\ cInput.op = "seq" /\ Len(cInput.seq) = 2
    /\ cInput.seq[1].modifiers = Mods(TRUE, TRUE, TRUE, TRUE) /\ cInput.seq[1].key = <<"k">>
    /\ cInput.seq[2].key = <<"w">>
    /\ cFormatted # <<>> /\ cFormatted[1].isSequence
    /\ cFormatted[1].id =
         <<"c","t","r","l","+","m","e","t","a","+","a","l","t","+","s","h","i","f","t","+","k",
           " ","m","e","t","a","+","a","l","t","+","w">>

\* the combination of one combo string when only the tokens before the key
\* are read as modifier aliases
parseEarlier(str) ==
    LET parts   == split(toLowerCase(str), "+")
        earlier == SubSeq(parts, 1, Len(parts) - 1)
    IN  [ key |-> parts[Len(parts)],
          modifiers |->
            [ ctrl  |-> includes(earlier, sCtrl) \/ includes(earlier, sControl),
              alt   |-> includes(earlier, sAlt) \/ includes(earlier, sOption),
              shift |-> includes(earlier, sShift),
              meta  |-> includes(earlier, sMeta) \/ includes(earlier, sCmd)
                        \/ includes(earlier, sCommand) ] ]

\* C19: parsing any hotkey string yields a Sequence; an empty or blank string
\* yields the empty one; in each combination the last '+'-separated token is
\* the key and only the tokens before it set modifier flags, unrecognized ones
\* setting none.
C19_ParseLenient ==
    (cInput.op = "str" /\ cParsed # <<>>) =>
        LET parts == splitWhitespace(trim(cInput.str))
        IN  /\ Len(cParsed[1]) = Len(parts)
            /\ \A i \in 1..Len(parts) : cParsed[1][i] = parseEarlier(parts[i])

\* "shift" parses to the key shift with the shift flag set
C19_Witness ==
    /\ cInput.op = "str" /\ cInput.str = hShift
    /\ cParsed = << << [key |-> sShift, modifiers |-> Mods(FALSE, FALSE, TRUE, FALSE)] >> >>
\* the modifier names: the aliases parseSingleCombination reads, in lower case
ModifierNames == { sCtrl, sControl, sAlt, sOption, sShift, sMeta, sCmd, sCommand }

\* C32: in every Combination parse returns for a hotkey string, a string of a
\* single modifier alias included, the key is never a modifier name and the
\* modifier flags are set only by the tokens other than the main key.
C32_CombinationInvariant ==
    (cInput.op = "str" /\ cParsed # <<>>) =>
        LET parts == splitWhitespace(trim(cInput.str))
        IN  \A i \in 1..Len(cParsed[1]) :
               /\ cParsed[1][i].key \notin ModifierNames
               /\ cParsed[1][i].modifiers = parseEarlier(parts[i]).modifiers

\* the Sequence parse returned for the single modifier alias "shift"
C32_Witness ==
    /\ cInput.op = "str" /\ cInput.str = hShift
    /\ cParsed # <<>> /\ Len(cParsed[1]) = 1

----------------------------------------------------------------------------
(* Properties of the conflict analyzer *)

\* the parsed entries of the table and the records of the flattened view
cfEntries == confEntries(cfKeymap)
cfRecords(key) ==
    { i \in 1..Len(cfConflicts.array) : cfConflicts.array[i].key = key }

\* no entry's sequence is a strict prefix of another's
noPrefixPair ==
    \A i, j \in 1..Len(cfEntries) : ~isPrefix(cfEntries[i].sequence, cfEntries[j].sequence)

singleActions == \A i \in 1..Len(cfEntries) : Len(cfEntries[i].actions) = 1

\* the record of the entry is of kind duplicate and lists all its action ids
reportedDuplicate(e) ==
    \E i \in cfRecords(e.key) :
        /\ cfConflicts.array[i].type = "duplicate"
        /\ \A n \in 1..Len(e.actions) : includes(cfConflicts.array[i].actions, e.actions[n])

\* C20: for every binding table, a key string bound to two or more action ids
\* is reported in the flattened view as a conflict of kind duplicate that
\* lists all its action ids; and a table in which every key has a single
\* action and no entry's sequence is a strict prefix of another's yields no
\* conflicts, also when several keys carry the same action id.
C20_Duplicate ==
    cfConflicts.op = "array" =>
        /\ \A i \in 1..Len(cfEntries) :
              Len(cfEntries[i].actions) >= 2 => reportedDuplicate(cfEntries[i])
        /\ (singleActions /\ noPrefixPair) => cfConflicts.array = <<>>

\* the view of a table in which a key with two action ids is also the prefix
\* of another entry
C20_Witness ==
    /\ cfConflicts.op = "array"
    /\ \E i, j \in 1..Len(cfEntries) :
          /\ Len(cfEntries[i].actions) >= 2
          /\ cfEntries[i].sequence # <<>>
          /\ isPrefix(cfEntries[i].sequence, cfEntries[j].sequence)

\* the combinations of a are the first combinations of the longer b, key and
\* flags compared exactly
strictPrefix(a, b) == Len(a) < Len(b) /\ SubSeq(b, 1, Len(a)) = a

\* the record of the key has kind prefix
reportedPrefix(key) ==
    \E i \in cfRecords(key) : cfConflicts.array[i].type = "prefix"

\* the entry a is annotated as prefix of b, and b as having a as prefix
annotatedPair(a, b) ==
    /\ includes(mapGet(cfConflicts.conflicts, a.key), sPrefixOf \o <<" ">> \o b.key)
    /\ includes(mapGet(cfConflicts.conflicts, b.key), sHasPrefix \o <<" ">> \o a.key)

\* C21: for every pair of table entries, the parsed sequence of one is a
\* strict prefix of the other's, combinations compared by key and all four
\* modifier flags exactly, if and only if both are reported with kind prefix,
\* the shorter annotated as prefix of the longer key and the longer as having
\* the shorter key as prefix.
C21_PrefixConflicts ==
    cfConflicts.op = "array" =>
        \A i, j \in 1..Len(cfEntries) :
            strictPrefix(cfEntries[i].sequence, cfEntries[j].sequence)
            <=> /\ reportedPrefix(cfEntries[i].key)
                /\ reportedPrefix(cfEntries[j].key)
                /\ annotatedPair(cfEntries[i], cfEntries[j])

\* the view of a table that binds "2", "2 w" and a third key that is in no
\* prefix relation
C21_Witness ==
    /\ cfConflicts.op = "array"
    /\ \E i, j \in 1..Len(cfEntries) :
          /\ cfEntries[i].key = h2 /\ cfEntries[j].key = h2W
          /\ annotatedPair(cfEntries[i], cfEntries[j])
          /\ reportedPrefix(h2) /\ reportedPrefix(h2W)
    /\ \E i \in 1..Len(cfEntries) :
          /\ cfEntries[i].key = hQW
          /\ ~reportedPrefix(hQW)

\* an empty or blank key string
isInert(key) == trim(key) = <<>>

\* the table without its empty and blank keys
cfWithoutInert == SelectSeq(cfKeymap, LAMBDA e : ~isInert(e.key))

\* C22: a table entry whose key string is empty or only whitespace parses to
\* the empty sequence and is excluded from conflict analysis: it is never
\* reported as a prefix of another entry, and every other entry is reported
\* exactly as in the table without it.
C22_EmptyInert ==
    cfConflicts.op = "map" =>
        \A i \in 1..Len(cfEntries) :
            IF isInert(cfEntries[i].key)
            THEN /\ cfEntries[i].sequence = <<>>
                 /\ \A n \in 1..Len(mapGet(cfConflicts.conflicts, cfEntries[i].key)) :
                       ~startsWith(mapGet(cfConflicts.conflicts, cfEntries[i].key)[n], sPrefixOf)
            ELSE mapGet(cfConflicts.conflicts, cfEntries[i].key)
                    = mapGet(findConflicts(cfWithoutInert), cfEntries[i].key)

\* the conflicts of a table that binds the empty string and another key
C22_Witness ==
    /\ cfConflicts.op = "map"
    /\ \E i, j \in 1..Len(cfEntries) :
          /\ cfEntries[i].key = hEmpty
          /\ cfEntries[j].sequence # <<>>

\* the action ids the table binds to the key
boundActions(key) ==
    cfEntries[CHOOSE i \in 1..Len(cfEntries) : cfEntries[i].key = key].actions

\* C31: for every binding table and every key string the conflict analyzer
\* reports, the actions list of its record in the flattened view is exactly
\* the list of action ids the table binds to that key, each once, also when
\* the key takes part in several conflicts.
C31_ActionsOnce ==
    cfConflicts.op = "array" =>
        \A i \in 1..Len(cfConflicts.array) :
            cfConflicts.array[i].actions = boundActions(cfConflicts.array[i].key)

\* the view of a table in which one non-empty key is the prefix of two longer
\* entries
C31_Witness ==
    /\ cfConflicts.op = "array"
    /\ \E i, j, k \in 1..Len(cfEntries) :
          /\ j # k
          /\ cfEntries[i].sequence # <<>>
          /\ strictPrefix(cfEntries[i].sequence, cfEntries[j].sequence)
          /\ strictPrefix(cfEntries[i].sequence, cfEntries[k].sequence)
          /\ cfRecords(cfEntries[i].key) # {}

----------------------------------------------------------------------------
(* Properties of useEditableHotkeys *)

\* the keys under which a table lists the action
keysOfAction(table, action) ==
    { table[i].key : i \in { n \in 1..Len(table) :
                               /\ table[n].value # Undefined
                               /\ includes(actionsOf(table[n].value), action) } }

\* the pairs of key and action id of a table
bindingsOf(table) ==
    UNION { { <<table[i].key, a>> : a \in Range(actionsOf(table[i].value)) } :
            i \in { n \in 1..Len(table) : table[n].value # Undefined } }

\* C23: after any sequence of setBinding, setKeymap and reset calls, a call
\* setBinding(action, key) leaves the merged keymap binding that action to
\* that key and to no other key, whatever overrides were made before.
C23_SetBinding ==
    edLast.op = "setBinding" =>
        keysOfAction(edKeymap, edLast.action) = { edLast.key }

\* setBinding(a, "k") when the overrides already bind a to "k" and, later,
\* to "j"
C23_Witness ==
    /\ edLast = [op |-> "setBinding", action |-> idA, key |-> hK]
    /\ overrides = Table2(hK, One(idA), hJ, One(idA))

\* C24: after reset() the overrides are empty and the merged keymap holds
\* exactly the bindings of the defaults table, every default key with every
\* one of its action ids, also when the defaults bind one action to several
\* keys.
C24_Reset ==
    edLast.op = "reset" =>
        /\ overrides = <<>>
        /\ bindingsOf(edKeymap) = bindingsOf(defaults)

\* reset() under defaults that bind the action a to "k" and to "j"
C24_Witness ==
    /\ edLast.op = "reset"
    /\ defaults = Table2(hK, One(idA), hJ, One(idA))

----------------------------------------------------------------------------
(* Properties of the sequence recorder *)

\* the collaborator calls of the last step, by kind
captures == { i \in 1..Len(calls) : calls[i].op = "capture" }

cancels == { i \in 1..Len(calls) : calls[i].op = "cancel" }

\* C8: an Escape keydown in any recording state leaves the recorder idle with
\* no pending combination, no held key and no timer, having invoked the cancel
\* collaborator once and the capture collaborator not at all.
C8_EscapeCancels ==
    (lastOp.op = "keydown" /\ lastOp.key = kEscape) =>
        /\ ~isRecording
        /\ pendingKeys = <<>>
        /\ pressedKeys = <<>>
        /\ timers = {} /\ timeoutRef = 0
        /\ Len(calls) = 1 /\ cancels = {1} /\ captures = {}

\* Escape arrived with a combination pending and its timer running
C8_Witness ==
    /\ lastOp.op = "keydown" /\ lastOp.key = kEscape
    /\ lastOp.before.timer /\ lastOp.before.pending
    /\ ~isRecording /\ cancels = {1}

\* C9: no capture is ever delivered for a session that was cancelled, and no
\* timer of a cancelled session stays scheduled to deliver one.
C9_NoCaptureAfterCancel ==
    /\ \A i \in captures : calls[i].of # "cancelled"
    /\ \A t \in timers : t.of # "cancelled"

\* a session was cancelled, by cancel() or Escape, while its timer was running
C9_Witness ==
    /\ lastOp.op \in {"cancel", "keydown"}
    /\ cancels # {} /\ calls[1].recording
    /\ lastOp.before.timer /\ lastOp.before.pending

\* C10: at most one timer is outstanding; it belongs to the current session and
\* holds the current pending sequence, so that when it fires the sequence it
\* submits is the pending sequence of the current session.
C10_OneTimer ==
    /\ Cardinality(timers) <= 1
    /\ \A t \in timers :
           /\ isRecording /\ t.of = "current"
           /\ t.handle = timeoutRef
           /\ t.seq = pendingKeys /\ Len(t.seq) > 0
    /\ lastOp.op = "timer" =>
           /\ Len(calls) = 1 /\ captures = {1}
           /\ calls[1].seq = lastOp.seq /\ calls[1].of = "current"
           /\ sequence = <<lastOp.seq>>

\* the timer fired after the second combination replaced the timer of the first
C10_Witness ==
    /\ lastOp.op = "timer" /\ Len(lastOp.seq) = 2
    /\ captures = {1} /\ timers = {}

\* the combinations of a sequence whose key is the token of Enter
enterCombos(seq) == { k \in 1..Len(seq) : seq[k].key = keyMap[kEnter] }

\* C11: an Enter keydown while recording with a non-empty pending sequence
\* finalizes with exactly that sequence (the recorder goes idle and the capture
\* collaborator is called once); with an empty pending sequence it leaves the
\* recorder recording with nothing captured; and Enter never becomes a
\* combination of a pending or captured sequence.
C11_EnterFinalizes ==
    /\ [](/\ enterCombos(pendingKeys) = {}
          /\ \A i \in captures : enterCombos(calls[i].seq) = {})
    /\ [][ (lastOp'.op = "keydown" /\ lastOp'.key = kEnter) =>
              IF pendingKeys # <<>>
              THEN /\ ~isRecording'
                   /\ Len(calls') = 1 /\ calls'[1].op = "capture"
                   /\ calls'[1].seq = pendingKeys
                   /\ sequence' = <<pendingKeys>>
              ELSE /\ isRecording'
                   /\ calls' = <<>>
                   /\ pendingKeys' = <<>> /\ sequence' = sequence ]_vars

\* Enter finalized a pending sequence of two combinations
C11_Witness ==
    /\ lastOp.op = "keydown" /\ lastOp.key = kEnter
    /\ captures = {1} /\ Len(calls[1].seq) = 2
    /\ ~isRecording

\* the Combination of g pressed with no modifier
comboG == [key |-> <<"g">>, modifiers |-> Mods(FALSE, FALSE, FALSE, FALSE)]

\* g is the only key pressed since the session started: either its keyup has
\* completed the combination, or it is still held
onlyG ==
    /\ isRecording
    /\ \/ (pendingKeys = <<comboG>> /\ currentCombo = <<>> /\ pressedKeys = <<>>)
       \/ (pendingKeys = <<>> /\ currentCombo = <<comboG>> /\ pressedKeys = << <<"g">> >>)

\* C12: pressing g and then Enter delivers [g] to the capture collaborator on
\* the Enter keydown, whether or not the keyup of g came before Enter.
C12_EnterWithoutKeyup ==
    [][ (onlyG /\ lastOp'.op = "keydown" /\ lastOp'.key = kEnter) =>
            /\ Len(calls') = 1 /\ calls'[1].op = "capture"
            /\ calls'[1].seq = <<comboG>>
            /\ ~isRecording' ]_vars

\* Enter arrived while g was still held: nothing is captured and the recorder
\* keeps recording with g as its provisional combination
C12_Witness ==
    /\ lastOp.op = "keydown" /\ lastOp.key = kEnter
    /\ isRecording /\ calls = <<>>
    /\ pendingKeys = <<>> /\ currentCombo = <<comboG>> /\ pressedKeys = << <<"g">> >>

\* the matcher's own timer expires
matcherExpiry ==
    /\ sqTimer # {} /\ sqTimer' = {}
    /\ sqPending' = <<>> /\ sqFired' = <<>>
    /\ sqLast' = [op |-> "timer"]
    /\ UNCHANGED recVars

completes ==
    /\ lastOp'.op = "keyup"
    /\ hasNonModifier /\ currentCombo # <<>>
    /\ pendingKeys' = Append(pendingKeys, currentCombo[1])

\* C13: when the inter-key timer fires the recorder finalizes with the pending
\* sequence: it goes idle and the capture collaborator is called once with it;
\* and within a session the pending sequence only grows, by the combination a
\* keyup completes, appended last, so it lists the combinations completed
\* since startRecording in the order of their completion.
C13_TimeoutFinalizes ==
    /\ [][ lastOp'.op = "timer" =>
              IF pendingKeys = <<>>
              THEN UNCHANGED <<isRecording, pendingKeys, sequence>> /\ calls' = <<>>
              ELSE /\ isRecording /\ ~isRecording'
                   /\ Len(calls') = 1 /\ calls'[1].op = "capture"
                   /\ calls'[1].seq = pendingKeys
                   /\ sequence' = <<pendingKeys>>
                   /\ timers' = {} ]_vars
    /\ [][ (isRecording /\ isRecording' /\ lastOp'.op # "start") =>
              (pendingKeys' = pendingKeys \/ completes) ]_vars
    /\ [][ lastOp'.op = "start" => pendingKeys' = <<>> ]_vars

\* the timer delivered two different combinations in the order they were completed
C13_Witness ==
    /\ lastOp.op = "timer"
    /\ captures = {1} /\ Len(calls[1].seq) = 2
    /\ calls[1].seq[1] # calls[1].seq[2]
    /\ sequence = <<calls[1].seq>> /\ ~isRecording

\* C14: startRecording always leaves the recorder recording with an empty
\* pending sequence, no held key, no provisional combination and no timer; and
\* the timers and the captures of the recorder always belong to the session in
\* progress, so nothing a restarted session had pending is delivered or kept.
C14_StartResets ==
    /\ lastOp.op = "start" =>
           /\ isRecording
           /\ pendingKeys = <<>> /\ pressedKeys = <<>>
           /\ currentCombo = <<>> /\ ~hasNonModifier
           /\ sequence = <<>>
           /\ timers = {} /\ timeoutRef = 0
           /\ calls = <<>>
    /\ \A t \in timers : t.of = "current"
    /\ \A i \in captures : calls[i].of = "current"

\* startRecording was called while a session had a combination pending and
\* its timer running
C14_Witness ==
    /\ lastOp.op = "start"
    /\ lastOp.before.timer /\ lastOp.before.pending
    /\ isRecording /\ pendingKeys = <<>>

\* the raw keys of the four modifiers
ModifierKeys == { kControl, kAlt, kShift, kMeta }

\* a provisional Combination with a non-modifier key exists
hasProvisional == currentCombo # <<>> /\ currentCombo[1].key # <<>>

\* C27: a keyup completes a combination exactly when a provisional Combination
\* with a non-modifier key exists and either no key is held after the release
\* or the released key is Meta; the completed Combination is appended last to
\* the pending sequence, the held keys and the provisional Combination are
\* cleared, one timer for the new pending sequence is started and the
\* recorder keeps recording; any other keyup changes neither the pending
\* sequence nor the timer.
C27_ComboCompletion ==
    [][ \A key \in RecKeys :
          recHandleKeyUp(key) =>
              IF hasProvisional /\ (setDelete(pressedKeys, key) = <<>> \/ key = kMeta)
              THEN /\ pendingKeys' = Append(pendingKeys, currentCombo[1])
                   /\ pressedKeys' = <<>> /\ currentCombo' = <<>> /\ ~hasNonModifier'
                   /\ isRecording'
                   /\ Cardinality(timers') = 1
                   /\ \A t \in timers' : t.seq = pendingKeys' /\ t.handle = timeoutRef'
              ELSE /\ pendingKeys' = pendingKeys
                   /\ timers' = timers /\ timeoutRef' = timeoutRef ]_vars

\* Meta is released while g is still held, after one completed combination
C27_Witness ==
    /\ lastOp.op = "keyup" /\ lastOp.key = kMeta
    /\ lastOp.before.held /\ lastOp.before.pending
    /\ Len(pendingKeys) = 2 /\ pendingKeys[2].key = <<"g">>
    /\ pendingKeys[2].modifiers.meta
    /\ isRecording /\ timers # {}

\* the capture calls of the last step of the single-combination recorder
r1Captures == { i \in 1..Len(r1Calls) : r1Calls[i].op = "capture" }

\* C28: in the single-combination recorder the first combination completed
\* after startRecording finalizes at once: on that keyup the recorder goes
\* idle and the capture collaborator is called exactly once, with that
\* Combination; a capture is made by no other step, so no second combination
\* is captured before the next startRecording.
C28_SingleCapture ==
    /\ [][ \A key \in R1Keys :
             (/\ r1HandleKeyUp(key)
              /\ r1CurrentCombo # <<>>
              /\ (setDelete(r1PressedKeys, key) = <<>> \/ key = kMeta)) =>
                 /\ ~r1IsRecording'
                 /\ r1Calls' = <<[op |-> "capture", combo |-> r1CurrentCombo[1],
                                  display |-> [id |-> comboId(r1CurrentCombo[1]),
                                               isSequence |-> FALSE]]>>
                 /\ r1Combination' = <<r1CurrentCombo[1]>> ]_vars
    /\ [][ r1Captures' # {} => (r1IsRecording /\ ~r1IsRecording' /\ r1LastOp'.op = "keyup") ]_vars

\* Shift+T is captured when the last held key is released
C28_Witness ==
    /\ r1Captures = {1} /\ ~r1IsRecording
    /\ r1LastOp.op = "keyup" /\ Len(r1LastOp.held) = 1
    /\ r1Calls[1].combo = [key |-> <<"t">>, modifiers |-> Mods(TRUE, FALSE, TRUE, TRUE)]

\* the earliest pressed non-modifier key among the held keys
earliestNonModifier(held) ==
    LET idx == { i \in 1..Len(held) : held[i] \notin ModifierKeys }
    IN  held[CHOOSE i \in idx : \A j \in idx : i <= j]

\* C29: after a keydown other than Enter and Escape the provisional key is the
\* normalized earliest pressed non-modifier key still held, with the modifier
\* flags of this keydown; a keydown with no non-modifier key held leaves the
\* provisional Combination as it was; the pending sequence does not change.
C29_ProvisionalCombination ==
    [][ \A key \in RecKeys \ { kEnter, kEscape }, mods \in RecMods :
          recHandleKeyDown(key, mods) =>
              /\ pendingKeys' = pendingKeys
              /\ IF \E i \in 1..Len(pressedKeys') : pressedKeys'[i] \notin ModifierKeys
                 THEN currentCombo' =
                          << [key |-> normalizeKey(earliestNonModifier(pressedKeys')),
                              modifiers |-> mods] >>
                 ELSE currentCombo' = currentCombo ]_vars

\* T is pressed with modifiers while g is held: the provisional key stays g
C29_Witness ==
    /\ lastOp.op = "keydown" /\ lastOp.key = <<"T">>
    /\ pressedKeys = << <<"g">>, <<"T">> >>
    /\ currentCombo = << [key |-> <<"g">>, modifiers |-> Mods(TRUE, FALSE, TRUE, TRUE)] >>

\* C30: whenever the capture collaborator is called the recorder is idle, the
\* pending sequence and the held keys are empty, there is no provisional
\* Combination and no outstanding timer, the delivered sequence is not empty
\* and the delivered id is the canonical id of the delivered sequence.
C30_FinalizePostconditions ==
    \A i \in captures :
        /\ ~isRecording
        /\ pendingKeys = <<>> /\ pressedKeys = <<>>
        /\ currentCombo = <<>> /\ ~hasNonModifier
        /\ timers = {} /\ timeoutRef = 0
        /\ calls[i].seq # <<>>
        /\ calls[i].display.id = seqId(calls[i].seq)

\* Enter finalizes a sequence of two combinations while Shift is held
C30_Witness ==
    /\ captures # {}
    /\ lastOp.op = "keydown" /\ lastOp.key = kEnter /\ lastOp.before.held
    /\ Len(calls[1].seq) = 2

\* a press in which no non-modifier key takes part: the recorder is recording,
\* only modifier keys are held and there is no provisional Combination
modifierOnly ==
    /\ isRecording
    /\ \A i \in 1..Len(pressedKeys) : pressedKeys[i] \in ModifierKeys
    /\ ~hasProvisional

\* C33: while recording, when no key is held there is no provisional
\* Combination, and a keydown or keyup of a modifier key in a press of modifier
\* keys only appends nothing to the pending sequence, notifies no collaborator,
\* leaves the recorder recording and leaves the press one of modifier keys
\* only, whatever the pending sequence is.
C33_ModifierOnlyPress ==
    [][ /\ (isRecording /\ pressedKeys = <<>>) => ~hasProvisional
        /\ \A key \in RecKeys \cap ModifierKeys :
              (modifierOnly /\ (recHandleKeyUp(key)
                                \/ \E mods \in RecMods : recHandleKeyDown(key, mods)))
              => /\ pendingKeys' = pendingKeys
                 /\ sequence' = sequence
                 /\ calls' = <<>>
                 /\ modifierOnly' ]_vars

\* Shift was pressed and released alone after a combination had completed
C33_Witness ==
    /\ lastOp.op = "keyup" /\ lastOp.key = kShift
    /\ lastOp.before.held /\ lastOp.before.pending
    /\ isRecording /\ pendingKeys # <<>> /\ pressedKeys = <<>>
    /\ ~hasProvisional /\ timers = {}

\* C35: in every recording state with a non-empty pending sequence and no key
\* held, the inter-key timer that finalizes with the pending sequence is
\* outstanding; in particular after a keydown and keyup of a modifier key alone
\* that follow a completed combination.
C35_Progress ==
    (isRecording /\ pendingKeys # <<>> /\ pressedKeys = <<>>) =>
        \E t \in timers :
            t.handle = timeoutRef /\ t.seq = pendingKeys /\ t.of = "current"

\* Meta was pressed and released alone while a combination was pending under
\* its timer
C35_Witness ==
    /\ lastOp.op = "keyup" /\ lastOp.key = kMeta
    /\ lastOp.before.held /\ lastOp.before.pending /\ ~lastOp.before.timer
    /\ isRecording /\ pendingKeys # <<>> /\ pressedKeys = <<>>

\* C36: every step notifies at most one collaborator; a capture is delivered
\* only for the session that is active, a cancel notification is made only
\* when a session is active, and the notified session is over, so that a
\* session is notified at most once and nothing is notified when no session is
\* active.
C36_Notifications ==
    /\ Len(calls) <= 1
    /\ calls # <<>> => ~isRecording
    /\ \A i \in captures : calls[i].of = "current"
    /\ \A i \in cancels : calls[i].recording

\* cancel() is called after the session has finalized
C36_Witness ==
    /\ lastOp.op = "cancel"
    /\ sequence # <<>>
    /\ cancels = {1} /\ ~calls[1].recording

----------------------------------------------------------------------------
(* Prefix shadowing in the sequence matcher *)

k2 == [key |-> <<"2">>, modifiers |-> Mods(FALSE, FALSE, FALSE, FALSE)]
kW == [key |-> <<"w">>, modifiers |-> Mods(FALSE, FALSE, FALSE, FALSE)]

\* binding i has an action with a registered handler and its sequence is a
\* strict prefix of the sequence of binding j
shadows(i, j) ==
    /\ parseHotkeyString(sqKeymap[i].key) # <<>>
    /\ strictPrefix(parseHotkeyString(sqKeymap[i].key), parseHotkeyString(sqKeymap[j].key))
    /\ \E n \in 1..Len(sqKeymap[i].actions) : sqKeymap[i].actions[n] \in sqHandlers

\* the action is bound by binding j only
onlyOf(a, j) ==
    \A k \in 1..Len(sqKeymap) :
        k # j => \A n \in 1..Len(sqKeymap[k].actions) : sqKeymap[k].actions[n] # a

\* C37: when a bound sequence with a registered handler is a strict prefix of
\* another bound sequence, every keydown that completes the shorter one runs a
\* handler and leaves pendingKeys empty, pendingKeys never becomes the longer
\* sequence and no keydown ever runs an action that only the longer binding
\* binds; under {"2": zoomOut, "2 w": gotoW} gotoW never runs.
C37_PrefixShadowing ==
    /\ sqKeymap = TableShadow =>
          \A n \in 1..sqN : sqHist[n].op = "key" => sqHist[n].fired # <<"gotoW">>
    /\ \A i, j \in 1..Len(sqKeymap) :
          shadows(i, j) =>
              \A n \in 1..sqN :
                  sqHist[n].op = "key" =>
                      /\ isExactMatch(matchedAt(n), parseHotkeyString(sqKeymap[i].key)) =>
                             (Len(sqHist[n].fired) = 1 /\ pendingAfter(n) = <<>>)
                      /\ ~isExactMatch(matchedAt(n), parseHotkeyString(sqKeymap[j].key))
                      /\ \A a \in Range(sqKeymap[j].actions) :
                             onlyOf(a, j) => a \notin Range(sqHist[n].fired)

\* 2 then w under {"2": zoomOut, "2 w": gotoW}: 2 ran zoomOut and the w met
\* empty pendingKeys
C37_Witness ==
    /\ sqKeymap = TableShadow /\ sqHandlers = {"zoomOut", "gotoW"} /\ sqN = 2
    /\ sqHist[1].op = "key" /\ sqHist[1].combo = k2 /\ sqHist[1].fired = <<"zoomOut">>
    /\ sqHist[2].op = "key" /\ sqHist[2].combo = kW /\ sqHist[2].before = <<>>
    /\ sqHist[2].fired = <<>>

----------------------------------------------------------------------------
(* Canonicalization of hotkey strings *)

\* the combinations a hotkey string denotes when, in each combination, the
\* last token is the key and the tokens before it are modifier aliases
denoted(str) ==
    LET parts == splitWhitespace(trim(str))
    IN  [i \in 1..Len(parts) |-> parseEarlier(parts[i])]

\* every token before the key is a modifier alias, and the key is a key
wellFormed(str) ==
    LET parts == splitWhitespace(trim(str))
    IN  \A i \in 1..Len(parts) :
           LET tokens == split(toLowerCase(parts[i]), "+")
           IN  /\ tokens[Len(tokens)] # <<>>
               /\ tokens[Len(tokens)] \notin ModifierNames
               /\ \A n \in 1..(Len(tokens) - 1) : tokens[n] \in ModifierNames

\* the two strings differ only in modifier alias, modifier order or letter case
sameBinding(s, t) == wellFormed(s) /\ wellFormed(t) /\ denoted(s) = denoted(t)

\* C38: for every hotkey string, the id of the Sequence parsed from the id of
\* its parsed Sequence is that id again, and two strings that differ only in
\* modifier alias, modifier order or letter case have the same id.
C38_CanonicalIdempotent ==
    /\ (cInput.op = "str" /\ Len(cFormatted) = 2) => cFormatted[2].id = cFormatted[1].id
    /\ (cInput.op = "str" /\ Len(cFormatted) >= 1) =>
          \A t \in CodecStrings :
              sameBinding(cInput.str, t) =>
                  formatCombination(parseHotkeyString(t)).id = cFormatted[1].id

\* the id of "+ k" was parsed and formatted again
C38_Witness ==
    /\ cInput.op = "str" /\ cInput.str = hPlusK
    /\ Len(cParsed) = 2 /\ Len(cFormatted) = 2

----------------------------------------------------------------------------
(* The merged keymap of useEditableHotkeys *)

\* the action ids a table lists
actionIds(table) ==
    UNION { Range(actionsOf(table[i].value)) :
            i \in { n \in 1..Len(table) : table[n].value # Undefined } }

\* how often the entries of a table list the action
occurrences(table, action) ==
    LET live == SelectSeq(table, LAMBDA e : e.value # Undefined)
        count[n \in 0..Len(live)] ==
            IF n = 0 THEN 0
            ELSE count[n - 1]
                 + Cardinality({ m \in 1..Len(actionsOf(live[n].value)) :
                                   actionsOf(live[n].value)[m] = action })
    IN  count[Len(live)]

\* C39: after any sequence of setBinding, setKeymap and reset calls, every
\* action id of the defaults or of the overrides is listed in the merged
\* keymap under exactly one key, once, and the merged keymap lists no other
\* action id.
C39_KeymapInvariant ==
    /\ \A a \in actionIds(defaults) \cup actionIds(overrides) :
          /\ Cardinality(keysOfAction(edKeymap, a)) = 1
          /\ occurrences(edKeymap, a) = 1
    /\ actionIds(edKeymap) \subseteq actionIds(defaults) \cup actionIds(overrides)
    /\ \A i \in 1..Len(edKeymap) : edKeymap[i].value # Undefined

\* the override j -> a moved a from its default key k to j, where b is bound
C39_Witness ==
    /\ edLast = [op |-> "setBinding", action |-> idA, key |-> hJ]
    /\ defaults = Table2(hK, One(idA), hJ, One(idB))
    /\ overrides = Table1(hJ, One(idA))
    /\ edKeymap = Table1(hJ, Many(<<idA, idB>>))

============================================================================
